---- MODULE Spec2Model ----
(***************************************************************************)
(* A model of the AWS load-balancer rotation listener for Seiso:           *)
(*   - the Orchestrator lifecycle (src/orchestrator.js),                   *)
(*   - the Listener polling loop (src/listener.js),                        *)
(*   - the rotation handlers of the Orchestrator,                          *)
(*   - the Seiso client's node upsert and IP reconciliation                *)
(*     (the seisoClient module, kept in src/endecoder.js).                 *)
(*                                                                         *)
(* Scheduling follows Node.js with bluebird promises: a promise handler    *)
(* runs in a later macrotask than the event that settled the promise, the  *)
(* handlers chained on one promise (.catch(..).then(..)) run back to back  *)
(* in one drain of bluebird's queue, and process.nextTick callbacks run    *)
(* before the next macrotask.                                              *)
(***************************************************************************)
EXTENDS Integers, Sequences, FiniteSets, TLC

\* ---------------------------------------------------------------- bounds
\* start()/stop() calls the caller makes in one run of the model.
MaxOps == 3
\* Bootstraps (transitions into Starting), shutdowns (transitions into
\* Stopping) and calls that carry a callback: at most one per call.
MaxStarts == MaxOps
MaxStops == MaxOps
MaxCalls == MaxOps
\* Custom mappers configured (config.customMappers.length).
NumMappers == 2

\* Instances the messages of one run of the rotation model list in total (a
\* message that lists none counts as one); no message lists more, and no more
\* messages are delivered.
MaxWork == 2
MaxBatch == MaxWork
MaxMsgs == MaxWork

\* IP addresses the inventory model distinguishes.
NumAddrs == 3

Boots == 1..MaxStarts
Halts == 1..MaxStops
Calls == 1..MaxCalls
Mappers == 1..NumMappers
Tokens == 1..MaxMsgs

\* "no object": the value of listener before the first start and after
\* `listener = null`; also "no callback given".
None == 0

VARIABLES
    state,          \* orchestrator.js:24  the orchestrator's lifecycle state
    listener,       \* orchestrator.js:27  the Listener the closure refers to (None: null/undefined)
    rotationStatuses, \* orchestrator.js:98  "empty" ([]) or "filled"
    booted,         \* bootstraps so far; boot b constructed Listener b
    halted,         \* shutdowns initiated so far
    lsn,            \* the Listener objects: state, listen, loop position, handlers, once('stopped'),
                    \* the error raised in the current iteration, 'stopped' events emitted
    boot,           \* per bootstrap: the promises of orchestrator.js:128-147
    halt,           \* per shutdown: the promises of orchestrator.js:193-230
    calls,          \* per start/stop call with a callback: kind, notified flag, invocations
    onStarted,      \* self.once('started') subscribers, in registration order
    onStopped,      \* self.once('stopped') subscribers, in registration order
    tickQ,          \* process.nextTick queue
    ops,            \* start()/stop() calls made so far
    delivered,      \* the messages received so far, each by its kind and the number of instances it lists;
                    \* the t-th has ReceiptHandle t
    inbox,          \* per Listener: the message processMessage is working on
    jobs,           \* per message: the rotation batch a rotate handler started for it
    acks,           \* per message: deleteMessage calls, by the Listener and by a handler,
                    \* and the event the Listener emitted for it
    remote,         \* the records of the remote inventory (Seiso)
    client          \* per SeisoClient call in progress: its position, inputs and requests

lifeVars == <<state, listener, rotationStatuses, booted, halted, lsn, boot, halt,
              calls, onStarted, onStopped, tickQ, ops>>

rotVars == <<delivered, inbox, jobs, acks>>

invVars == <<remote, client>>

vars == <<lifeVars, rotVars, invVars>>

\* ------------------------------------------------------------- helpers

AllMaps(v) == [m \in Mappers |-> v]

\* A bootstrap that has not happened.
NoBoot == [conn |-> "none", lcb |-> "none", maps |-> AllMaps("none"),
           rot |-> "none", chain |-> "none", result |-> "none"]

\* A shutdown that has not happened.
NoHalt == [lstop |-> "none", maps |-> AllMaps("none"), chain |-> "none", cb |-> None,
           result |-> "none"]

\* A Listener that has not been constructed.
NoListener == [state |-> "none", listen |-> FALSE, pc |-> "none",
               attached |-> FALSE, once |-> <<>>, err |-> "none", emitted |-> 0]

NoCallRec == [kind |-> "none", notified |-> FALSE, log |-> <<>>, from |-> "none", ret |-> "none"]

\* The record of a bootstrap or shutdown whose aggregate promise has settled
\* with `result` and whose chain is at `chain`: the parts no longer matter.
SettledBoot(rec, chain, result) ==
    [rec EXCEPT !.chain = chain, !.result = result,
                !.conn = "-", !.lcb = "-", !.maps = AllMaps("-")]

SettledHalt(rec, chain, result) ==
    [rec EXCEPT !.chain = chain, !.result = result,
                !.lstop = "-", !.maps = AllMaps("-")]

\* The next unused callback identity (MaxCalls + 1 when all are used).
NextCall ==
    IF \E c \in Calls : calls[c].kind = "none"
    THEN CHOOSE c \in Calls : calls[c].kind = "none" /\ \A d \in 1..(c-1) : calls[d].kind # "none"
    ELSE MaxCalls + 1

\* A drain of the promise queue is between the .catch and the .then handler
\* of one chain: nothing else runs until the .then handler has run.
Draining ==
    \/ \E b \in Boots : boot[b].chain = "caught"
    \/ \E s \in Halts : halt[s].chain = "caught"

\* A macrotask (I/O completion, promise drain) may start.
Macro == ~Draining /\ tickQ = <<>>

\* The caller's code calls start()/stop() from a macrotask of its own.
CanCall == Macro /\ ops < MaxOps

CbTask(c, r) == [t |-> "cb", id |-> c, r |-> r]
SubStartedTask(c) == [t |-> "onStarted", id |-> c, r |-> "-"]
SubStoppedTask(c) == [t |-> "onStopped", id |-> c, r |-> "-"]
TryReadTask(l) == [t |-> "tryRead", id |-> l, r |-> "-"]
ListenerCbTask(b) == [t |-> "lcb", id |-> b, r |-> "-"]

\* ------------------------------------------------ orchestrator events

\* self.emit('started', null): every once('started') subscriber of a
\* start(callback) call sets its notified flag and calls back with null.
RECURSIVE EmitStarted(_, _)
EmitStarted(subs, cs) ==
    IF subs = <<>> THEN cs
    ELSE LET c == Head(subs) IN
         EmitStarted(Tail(subs),
                     [cs EXCEPT ![c].notified = TRUE, ![c].log = Append(@, "ok")])

\* A 'stopped' subscriber of start(callback) without the `notified` guard.
RECURSIVE EmitStoppedUnguarded(_, _, _)
EmitStoppedUnguarded(subs, ev, cs) ==
    IF subs = <<>> THEN [subs |-> <<>>, calls |-> cs]
    ELSE LET c == Head(subs) IN
         IF cs[c].kind = "start"
         THEN IF ev = "null"
              THEN [subs |-> Tail(subs), calls |-> cs]
              ELSE EmitStoppedUnguarded(Tail(subs), ev, [cs EXCEPT ![c].log = Append(@, "err")])
         ELSE IF cs[c].notified THEN EmitStoppedUnguarded(Tail(subs), ev, cs)
         ELSE EmitStoppedUnguarded(Tail(subs), ev, [cs EXCEPT ![c].log = Append(@, "ok")])

\* self.emit('stopped', ev), ev "error" for {Error: err} and "null" for null.
\* A start(callback) subscriber that was not notified reads event.Error: with
\* a null event that throws, and the subscribers after it are not called (they
\* stay subscribed).  A stop(callback) subscriber calls back with null.
RECURSIVE EmitStopped(_, _, _)
EmitStopped(subs, ev, cs) ==
    IF subs = <<>> THEN [subs |-> <<>>, calls |-> cs]
    ELSE LET c == Head(subs) IN
         IF cs[c].notified THEN EmitStopped(Tail(subs), ev, cs)
         ELSE IF cs[c].kind = "start"
              THEN IF ev = "null"
                   THEN [subs |-> Tail(subs), calls |-> cs]
                   ELSE EmitStopped(Tail(subs), ev, [cs EXCEPT ![c].log = Append(@, "err")])
              ELSE EmitStopped(Tail(subs), ev, [cs EXCEPT ![c].log = Append(@, "ok")])

\* The Listener's emit('stopped'): each once('stopped') handler registered by
\* stop() acts on the closure's CURRENT listener: it detaches the handlers of
\* that listener, sets listener = null and resolves its promise.  With
\* listener already null the handler throws, and the handlers after it are
\* not called.
RECURSIVE EmitListenerStopped(_, _, _, _)
EmitListenerStopped(once, cur, ls, hs) ==
    IF once = <<>> THEN [once |-> <<>>, listener |-> cur, lsn |-> ls, halt |-> hs]
    ELSE LET s == Head(once) IN
         IF cur = None
         THEN [once |-> Tail(once), listener |-> cur, lsn |-> ls, halt |-> hs]
         ELSE EmitListenerStopped(Tail(once), None,
                                  [ls EXCEPT ![cur].attached = FALSE],
                                  IF hs[s].chain = "pending"
                                  THEN [hs EXCEPT ![s].lstop = "ok"] ELSE hs)

\* --------------------------------------------------- Orchestrator.start

\* A call that carries a callback is recorded: what was called, the state it
\* was called in, what it returned, its `notified` flag (orchestrator.js:51,
\* 168) and the invocations of its callback.
Register(c, kind, ret) ==
    IF c = None THEN calls
    ELSE [calls EXCEPT ![c] = [kind |-> kind, notified |-> FALSE, log |-> <<>>,
                               from |-> state, ret |-> ret]]

\* The callback argument of a call: none, or a fresh callback.
CallbackArg(c) == c = None \/ (c = NextCall /\ c \in Calls)

\* A start() whose Started check does not return early: the callback is
\* subscribed to the next 'started'/'stopped' event instead of being called.
StartWhenStartedSubscribes(c) ==
    /\ state = "Started"
    /\ tickQ' = tickQ \o <<SubStartedTask(c), SubStoppedTask(c)>>
    /\ calls' = Register(c, "start", "false")
    /\ UNCHANGED <<state, listener, rotationStatuses, booted, halted, lsn, boot, halt,
                   onStarted, onStopped>>

\* orchestrator.js:39-46: already Started.
StartWhenStarted(c) ==
    /\ state = "Started"
    /\ tickQ' = IF c = None THEN tickQ ELSE Append(tickQ, CbTask(c, "ok"))
    /\ calls' = Register(c, "start", "false")
    /\ UNCHANGED <<state, listener, rotationStatuses, booted, halted, lsn, boot, halt,
                   onStarted, onStopped>>

\* orchestrator.js:50-66: the two deferred subscriptions of a start(callback).
StartSubscriptions(c) ==
    IF c = None THEN <<>> ELSE <<SubStartedTask(c), SubStoppedTask(c)>>

\* orchestrator.js:72-149: the bootstrap.  listener.js:54-70 (Listener
\* start) is part of it: the new Listener is Started, listening, and its
\* first tryRead and its start callback are deferred to the next tick.
Bootstrap(c) ==
    /\ booted < MaxStarts
    /\ LET b == booted + 1 IN
       /\ state' = "Starting"
       /\ booted' = b
       /\ listener' = b
       /\ rotationStatuses' = "empty"
       /\ lsn' = [lsn EXCEPT ![b] = [state |-> "Started", listen |-> TRUE, pc |-> "tick",
                                     attached |-> TRUE, once |-> <<>>, err |-> "none", emitted |-> 0]]
       /\ boot' = [boot EXCEPT ![b] = [conn |-> "pending", lcb |-> "pending",
                                       maps |-> AllMaps("pending"),
                                       rot |-> "pending", chain |-> "pending",
                                       result |-> "none"]]
       /\ tickQ' = tickQ \o StartSubscriptions(c) \o <<TryReadTask(b), ListenerCbTask(b)>>
    /\ calls' = Register(c, "start", "true")
    /\ UNCHANGED <<halted, halt, onStarted, onStopped>>

\* A start() without the Starting check: it bootstraps again.
StartWhenStartingBootstraps(c) ==
    /\ state = "Starting"
    /\ Bootstrap(c)

\* orchestrator.js:48-70: already Starting.
StartWhenStarting(c) ==
    /\ state = "Starting"
    /\ tickQ' = tickQ \o StartSubscriptions(c)
    /\ calls' = Register(c, "start", "false")
    /\ UNCHANGED <<state, listener, rotationStatuses, booted, halted, lsn, boot, halt,
                   onStarted, onStopped>>

\* orchestrator.js:68-73: from Stopped, Stopping or Unknown the call
\* bootstraps.
StartBootstrap(c) ==
    /\ state \notin {"Started", "Starting"}
    /\ Bootstrap(c)

\* orchestrator.js:38-150
Start(c) ==
    /\ CanCall
    /\ CallbackArg(c)
    /\ ops' = ops + 1
    /\ \/ StartWhenStarted(c)
       \/ StartWhenStarting(c)
       \/ StartBootstrap(c)

\* ---------------------------------------------------- Orchestrator.stop

\* orchestrator.js:159-166: already Stopped.
StopWhenStopped(c) ==
    /\ state = "Stopped"
    /\ tickQ' = IF c = None THEN tickQ ELSE Append(tickQ, CbTask(c, "ok"))
    /\ calls' = Register(c, "stop", "false")
    /\ UNCHANGED <<state, listener, rotationStatuses, booted, halted, lsn, boot, halt,
                   onStarted, onStopped>>

\* orchestrator.js:168-177: the deferred subscription of a stop(callback).
StopSubscription(c) ==
    IF c = None THEN <<>> ELSE <<SubStoppedTask(c)>>

\* orchestrator.js:168-181: already Stopping.
StopWhenStopping(c) ==
    /\ state = "Stopping"
    /\ tickQ' = tickQ \o StopSubscription(c)
    /\ calls' = Register(c, "stop", "false")
    /\ UNCHANGED <<state, listener, rotationStatuses, booted, halted, lsn, boot, halt,
                   onStarted, onStopped>>

\* orchestrator.js:183-204 with listener === null: the promise executor's
\* listener.once throws (the promise is rejected, and dropped with the call),
\* then listener.stop() throws out of stop() after the state was set.
StopWithoutListener(c) ==
    /\ state \notin {"Stopped", "Stopping"}
    /\ listener = None
    /\ state' = "Stopping"
    /\ tickQ' = tickQ \o StopSubscription(c)
    /\ calls' = Register(c, "stop", "throw")
    /\ UNCHANGED <<listener, rotationStatuses, booted, halted, lsn, boot, halt,
                   onStarted, onStopped>>

\* orchestrator.js:183-232: the shutdown, from Starting, Started or Unknown.
\* listener.js:138-143 (Listener stop) is part of it.
StopShutdown(c) ==
    /\ state \notin {"Stopped", "Stopping"}
    /\ listener # None
    /\ halted < MaxStops
    /\ LET s == halted + 1 IN
       /\ state' = "Stopping"
       /\ halted' = s
       /\ lsn' = [lsn EXCEPT ![listener].once = Append(@, s),
                             ![listener].state = "Stopping",
                             ![listener].listen = FALSE]
       /\ halt' = [halt EXCEPT ![s] = [lstop |-> "pending", maps |-> AllMaps("pending"),
                                       chain |-> "pending", cb |-> c,
                                       result |-> "none"]]
    /\ tickQ' = tickQ \o StopSubscription(c)
    /\ calls' = Register(c, "stop", "true")
    /\ UNCHANGED <<listener, rotationStatuses, booted, boot, onStarted, onStopped>>

\* orchestrator.js:158-233
Stop(c) ==
    /\ CanCall
    /\ CallbackArg(c)
    /\ ops' = ops + 1
    /\ \/ StopWhenStopped(c)
       \/ StopWhenStopping(c)
       \/ StopWithoutListener(c)
       \/ StopShutdown(c)


\* ------------------------------------------------- process.nextTick queue

\* The head of the nextTick queue runs.
\*   cb        : a completion callback is invoked (orchestrator.js:41-43, 161-163, 220-224)
\*   onStarted : self.once('started', ...)   (orchestrator.js:52-57)
\*   onStopped : self.once('stopped', ...)   (orchestrator.js:59-64, 170-176)
\*   tryRead   : Listener.tryRead issues receiveMessage (listener.js:61-63, 75-85, 105-107)
\*   lcb       : the Listener start callback, which resolves startAsync (listener.js:65-69)
RunTick ==
    /\ ~Draining
    /\ tickQ # <<>>
    /\ LET k == Head(tickQ) IN
       /\ tickQ' = Tail(tickQ)
       /\ calls' = IF k.t = "cb" THEN [calls EXCEPT ![k.id].log = Append(@, k.r)] ELSE calls
       /\ onStarted' = IF k.t = "onStarted" THEN Append(onStarted, k.id) ELSE onStarted
       /\ onStopped' = IF k.t = "onStopped" THEN Append(onStopped, k.id) ELSE onStopped
       /\ lsn' = IF k.t = "tryRead" THEN [lsn EXCEPT ![k.id].pc = "poll", ![k.id].err = "none"]
                ELSE lsn
       /\ boot' = IF k.t = "lcb" THEN [boot EXCEPT ![k.id].lcb = "ok"] ELSE boot
    /\ UNCHANGED <<state, listener, rotationStatuses, booted, halted, halt>>
    /\ UNCHANGED ops

\* ------------------------------------------------ asynchronous results

Outcome == {"ok", "fail"}

\* Promise.all of orchestrator.js:137: rejected as soon as one part is
\* rejected, fulfilled when every part is (the feeder's part always is,
\* feeder.js:53-63).
BootRejected(b) ==
    \/ boot[b].conn = "fail"
    \/ boot[b].lcb = "fail"
    \/ \E m \in Mappers : boot[b].maps[m] = "fail"

BootFulfilled(b) ==
    /\ boot[b].conn = "ok"
    /\ boot[b].lcb = "ok"
    /\ \A m \in Mappers : boot[b].maps[m] = "ok"

\* Promise.all of orchestrator.js:215.
HaltRejected(s) ==
    \/ halt[s].lstop = "fail"
    \/ \E m \in Mappers : halt[s].maps[m] = "fail"

HaltFulfilled(s) ==
    /\ halt[s].lstop = "ok"
    /\ \A m \in Mappers : halt[s].maps[m] = "ok"

\* A part settles while its aggregate is undecided; what settles after the
\* aggregate was rejected is dropped by Promise.all and changes nothing.

\* seisoClient.connectAsync() settles (endecoder.js:44-55).
ConnectDone(b, r) ==
    /\ Macro
    /\ boot[b].chain = "pending" /\ ~BootRejected(b)
    /\ boot[b].conn = "pending"
    /\ boot' = [boot EXCEPT ![b].conn = r]
    /\ UNCHANGED <<state, listener, rotationStatuses, booted, halted, lsn, halt, calls,
                   onStarted, onStopped, tickQ>>
    /\ UNCHANGED ops

\* A custom mapper's start hook calls back (orchestrator.js:132-135).
MapperStartDone(b, m, r) ==
    /\ Macro
    /\ boot[b].chain = "pending" /\ ~BootRejected(b)
    /\ boot[b].maps[m] = "pending"
    /\ boot' = [boot EXCEPT ![b].maps[m] = r]
    /\ UNCHANGED <<state, listener, rotationStatuses, booted, halted, lsn, halt, calls,
                   onStarted, onStopped, tickQ>>
    /\ UNCHANGED ops

\* seisoClient.getRotationStatuses() settles; on success the cache is filled
\* (orchestrator.js:98-100).  A failure is not handled anywhere.
RotationStatusesDone(b, r) ==
    /\ Macro
    /\ boot[b].rot = "pending"
    /\ boot' = [boot EXCEPT ![b].rot = r]
    /\ rotationStatuses' = IF r = "ok" THEN "filled" ELSE rotationStatuses
    /\ UNCHANGED <<state, listener, booted, halted, lsn, halt, calls,
                   onStarted, onStopped, tickQ>>
    /\ UNCHANGED ops

\* A custom mapper's stop hook calls back (orchestrator.js:208-212).
MapperStopDone(s, m, r) ==
    /\ Macro
    /\ halt[s].chain = "pending" /\ ~HaltRejected(s)
    /\ halt[s].maps[m] = "pending"
    /\ halt' = [halt EXCEPT ![s].maps[m] = r]
    /\ UNCHANGED <<state, listener, rotationStatuses, booted, halted, lsn, boot, calls,
                   onStarted, onStopped, tickQ>>
    /\ UNCHANGED ops

\* ------------------------------------------- the start promise chain

\* orchestrator.js:138-143: the .catch handler.
BootCatch(b) ==
    /\ Macro
    /\ boot[b].chain = "pending"
    /\ BootRejected(b)
    /\ state' = "Stopped"
    /\ LET e == EmitStopped(onStopped, "error", calls) IN
       /\ onStopped' = e.subs
       /\ calls' = e.calls
    /\ boot' = [boot EXCEPT ![b] = SettledBoot(@, "caught", "fail")]
    /\ UNCHANGED <<listener, rotationStatuses, booted, halted, lsn, halt,
                   onStarted, tickQ>>
    /\ UNCHANGED ops

\* The .then handler chained after the .catch runs when the aggregate was
\* fulfilled, and also after the .catch handler has returned.
BootThenReady(b) ==
    \/ boot[b].chain = "caught"
    \/ boot[b].chain = "pending" /\ BootFulfilled(b) /\ Macro

\* orchestrator.js:144-147: the .then handler.
BootThen(b) ==
    /\ BootThenReady(b)
    /\ state' = "Started"
    /\ calls' = EmitStarted(onStarted, calls)
    /\ onStarted' = <<>>
    /\ boot' = [boot EXCEPT ![b] = SettledBoot(@, "done", IF @.chain = "caught" THEN "fail" ELSE "ok")]
    /\ UNCHANGED <<listener, rotationStatuses, booted, halted, lsn, halt,
                   onStopped, tickQ>>
    /\ UNCHANGED ops

\* -------------------------------------------- the stop promise chain

\* orchestrator.js:216-226: the .catch handler.
HaltCatch(s) ==
    /\ Macro
    /\ halt[s].chain = "pending"
    /\ HaltRejected(s)
    /\ state' = "Unknown"
    /\ calls' = IF halt[s].cb = None THEN calls
                ELSE [calls EXCEPT ![halt[s].cb].notified = TRUE]
    /\ tickQ' = IF halt[s].cb = None THEN tickQ ELSE Append(tickQ, CbTask(halt[s].cb, "err"))
    /\ halt' = [halt EXCEPT ![s] = SettledHalt(@, "caught", "fail")]
    /\ UNCHANGED <<listener, rotationStatuses, booted, halted, lsn, boot,
                   onStarted, onStopped>>
    /\ UNCHANGED ops

HaltThenReady(s) ==
    \/ halt[s].chain = "caught"
    \/ halt[s].chain = "pending" /\ HaltFulfilled(s) /\ Macro

\* orchestrator.js:227-230: the .then handler.
HaltThen(s) ==
    /\ HaltThenReady(s)
    /\ state' = "Stopped"
    /\ LET e == EmitStopped(onStopped, "null", calls) IN
       /\ onStopped' = e.subs
       /\ calls' = e.calls
    /\ halt' = [halt EXCEPT ![s] = SettledHalt(@, "done", IF @.chain = "caught" THEN "fail" ELSE "ok")]
    /\ UNCHANGED <<listener, rotationStatuses, booted, halted, lsn, boot,
                   onStarted, tickQ>>
    /\ UNCHANGED ops

\* ------------------------------------------------- the Listener loop

\* What one receiveMessage long poll ends with when the queue holds no
\* message: nothing, a credentials/authorization error, another error.
EmptyPolls == {"none", "fatal", "error"}

\* listener.js:93-102: the .catch handler: a fatal error calls self.stop().
AfterPollError(rec, o) ==
    IF o = "fatal" THEN [rec EXCEPT !.state = "Stopping", !.listen = FALSE, !.err = "fatal"]
    ELSE IF o = "error" THEN [rec EXCEPT !.err = "error"]
    ELSE rec

\* A loop that goes on polling whatever the `listen` flag says.
LoopContinueIgnoringStop(l, rec) ==
    /\ lsn' = [lsn EXCEPT ![l] = [rec EXCEPT !.pc = "tick"]]
    /\ tickQ' = Append(tickQ, TryReadTask(l))
    /\ UNCHANGED <<listener, halt>>

\* listener.js:103-112: the final .then handler, for a Listener l whose
\* fields (after the earlier handlers) are rec.
LoopContinue(l, rec) ==
    IF rec.listen
    THEN /\ lsn' = [lsn EXCEPT ![l] = [rec EXCEPT !.pc = "tick"]]
         /\ tickQ' = Append(tickQ, TryReadTask(l))
         /\ UNCHANGED <<listener, halt>>
    ELSE LET stopped == [rec EXCEPT !.state = "Stopped", !.pc = "halted",
                                    !.emitted = @ + 1]
             e == EmitListenerStopped(rec.once, listener,
                                      [lsn EXCEPT ![l] = stopped], halt)
         IN /\ lsn' = [e.lsn EXCEPT ![l].once = e.once]
            /\ listener' = e.listener
            /\ halt' = e.halt
            /\ UNCHANGED tickQ

\* listener.js:86-112: a poll that brought no message ends.
PollDone(l, o) ==
    /\ Macro
    /\ lsn[l].pc = "poll"
    /\ LoopContinue(l, AfterPollError(lsn[l], o))
    /\ UNCHANGED <<state, rotationStatuses, booted, halted, boot, calls,
                   onStarted, onStopped>>
    /\ UNCHANGED ops


\* ================================================== rotation handling

\* The work a message that lists n instances stands for.
Weight(n) == IF n = 0 THEN 1 ELSE n

RECURSIVE Load(_)
Load(q) == IF q = <<>> THEN 0 ELSE Weight(Head(q).n) + Load(Tail(q))

\* The queue has another message, listing n instances, to deliver.
CanDeliver(n) == Load(delivered) + Weight(n) <= MaxWork

NoMsg == [kind |-> "none", token |-> None, n |-> 0]

NoJob == [kind |-> "none", status |-> "none", inst |-> <<>>, chain |-> "none"]

NoAcks == [listener |-> 0, handler |-> 0, event |-> "none"]

InitRotation ==
    /\ delivered = <<>>
    /\ inbox = [l \in Boots |-> NoMsg]
    /\ jobs = [t \in Tokens |-> NoJob]
    /\ acks = [t \in Tokens |-> NoAcks]

\* `asg`: the first instance the message lists belongs to an autoscaling
\* group.
\* What the queue delivers (listener.js:88-90, 153-226): a load-balancer
\* registration or deregistration event that lists n instances; a message of
\* any other detail-type; a body that is not JSON ("garbled": the parse error
\* is logged and the message, having no detail-type, is treated as one of
\* another type); a load-balancer event without load-balancer name or event
\* name ("invalid": processMessage throws into the .catch of tryRead); a
\* load-balancer event of the same detail-type with another event name
\* ("foreign").
MessageKinds == {"register", "deregister", "foreign", "other", "garbled", "invalid"}

\* listener.js:163: the messages of the load-balancer detail-type that pass
\* messageValidate: processMessage starts the cloud lookups for them.
LbKinds == {"register", "deregister", "foreign"}

\* listener.js:153-166: the messages that make processMessage throw or log an
\* error before any cloud call.
Faulty == {"garbled", "invalid"}

\* listener.js:162-163, 223-226: the messages that end in the else branch
\* and are deleted by the Listener.
Discarded == {"other", "garbled"}

\* EC2 instance details as describeInstances returns them (listener.js:187-199):
\* the instance id is present, the private DNS name is a list of labels
\* (none, a bare host name, a fully-qualified name).
DnsNames == {<<>>, <<"ip-10-0-0-1">>, <<"ip-10-0-0-1", "ec2", "internal">>}

Instances == [InstanceId : {"i-0abc"}, PrivateDnsName : DnsNames]

Batches == UNION {[1..n -> Instances] : n \in 0..MaxBatch}

\* mapper.js:21-50 validateMessage: the list of validation errors.
validateMessage(details) ==
    (IF details.InstanceId = "" THEN <<"Instance ID not present">> ELSE <<>>)
    \o (IF details.PrivateDnsName = <<>> THEN <<"Instance not named">>
        ELSE IF Len(details.PrivateDnsName) < 2 THEN <<"Instance DNS name not an FQDN">>
        ELSE <<>>)

\* orchestrator.js:264-325 rotateInstance, up to its first asynchronous step:
\* an invalid instance is rejected at once; a valid one enters the mapper
\* chain, or the node lookup when no mapper is configured.
rotateInstance(instance) ==
    IF validateMessage(instance) # <<>>
    THEN [at |-> "invalid", k |-> 0, found |-> "-", node |-> <<>>]
    ELSE IF NumMappers = 0 THEN [at |-> "find", k |-> 0, found |-> "-", node |-> <<>>]
    ELSE [at |-> "map", k |-> 1, found |-> "-", node |-> <<>>]

\* orchestrator.js:247, 335: the key under which the handler of the event
\* looks the rotation status up in the cache.
StatusKey(kind) == IF kind = "register" THEN "enabled" ELSE "disabled"

\* orchestrator.js:243-262, 331-348: instanceRotateInHandler and
\* instanceRotateOutHandler for the event of message t.  With an empty
\* rotation-status cache `rs` is undefined and rs._links throws for the first
\* instance: no batch is started (an empty instance list maps nothing and
\* does not throw).
RotateHandler(t, kind, instances) ==
    IF instances # <<>> /\ rotationStatuses = "empty"
    THEN jobs
    ELSE [jobs EXCEPT ![t] = [kind |-> kind,
                              status |-> IF instances = <<>> THEN "none" ELSE StatusKey(kind),
                              inst |-> [i \in DOMAIN instances |-> rotateInstance(instances[i])],
                              chain |-> "pending"]]

\* orchestrator.js:247-251: the handler of the event throws.
HandlerThrows(l, instances) ==
    lsn[l].attached /\ instances # <<>> /\ rotationStatuses = "empty"

\* A Listener that swaps the two events.
EventOfSwapped(kind) ==
    IF kind = "register" THEN "instance-rotate-out"
    ELSE IF kind = "deregister" THEN "instance-rotate-in"
    ELSE "none"

\* listener.js:205-219: the event emitted for a message of the kind, by its
\* event name; none for another event name.
EventOf(kind) ==
    IF kind = "register" THEN "instance-rotate-in"
    ELSE IF kind = "deregister" THEN "instance-rotate-out"
    ELSE "none"

\* orchestrator.js:124-125: the handler bound to the event, named by the kind
\* of message it is meant for.
HandlerOf(event) == IF event = "instance-rotate-in" THEN "register" ELSE "deregister"

\* What the cloud lookups of processMessage end with: success, an error, a
\* credentials/authorization error.
CloudResults == {"ok", "error", "fatal"}

\* listener.js:200-219: the event is emitted to the handlers the orchestrator
\* attached (orchestrator.js:124-125); the handler runs inside emit.
EmitRotate(l, m, instances) ==
    IF lsn[l].attached /\ EventOf(m.kind) # "none"
    THEN RotateHandler(m.token, HandlerOf(EventOf(m.kind)), instances)
    ELSE jobs

\* listener.js:250-285 resolveLoadBalancer for an instance that belongs to an
\* autoscaling group or not.  The response of describeAutoScalingInstances is
\* an object, whose `length` is undefined, so the test of line 257 is never
\* true; and whatever is thrown in the chain is caught by the .catch of line
\* 281, which returns null: the promise is always fulfilled.
resolveLoadBalancer(autoscaled) == "fulfilled"

\* listener.js:178-216: processMessage gets to emit when resolveLoadBalancer
\* is fulfilled and the instance lookup r succeeded.
Emits(l, r) ==
    r = "ok" /\ resolveLoadBalancer(delivered[inbox[l].token].asg) = "fulfilled"

\* A processMessage that is not waited for: the loop goes on to the next
\* poll while the message is still being processed.
PollMessageNotAwaited(l, kind, n, asg) ==
    /\ Macro
    /\ lsn[l].pc = "poll"
    /\ CanDeliver(n)
    /\ kind \notin LbKinds => n = 0
    /\ kind = "foreign" => n = 1
    /\ asg => kind \in {"register", "deregister"} /\ n = 1
    /\ delivered' = Append(delivered, [kind |-> kind, n |-> n, asg |-> asg])
    /\ IF kind \in LbKinds
       THEN /\ inbox' = [inbox EXCEPT ![l] = [kind |-> kind, token |-> Len(delivered) + 1, n |-> n]]
            /\ LoopContinue(l, lsn[l])
            /\ UNCHANGED acks
       ELSE /\ acks' = IF kind \in Discarded
                       THEN [acks EXCEPT ![Len(delivered) + 1].listener = @ + 1]
                       ELSE acks
            /\ LoopContinue(l, IF kind \in Faulty THEN [lsn[l] EXCEPT !.err = "error"]
                               ELSE lsn[l])
            /\ UNCHANGED inbox
    /\ UNCHANGED <<state, rotationStatuses, booted, halted, boot, calls,
                   onStarted, onStopped, ops, jobs, invVars>>

\* listener.js:86-92 and 145-178, 223-226: a poll brings a message and
\* processMessage starts on it.  A message of another type is deleted at once
\* and the loop continues; for a load-balancer event the cloud lookups are
\* started and the loop waits for processMessage's promise.
PollMessage(l, kind, n, asg) ==
    /\ Macro
    /\ lsn[l].pc = "poll"
    /\ CanDeliver(n)
    /\ kind \notin LbKinds => n = 0
    /\ kind = "foreign" => n = 1
    /\ asg => kind \in {"register", "deregister"} /\ n = 1
    /\ delivered' = Append(delivered, [kind |-> kind, n |-> n, asg |-> asg])
    /\ IF kind \in LbKinds
       THEN /\ inbox' = [inbox EXCEPT ![l] = [kind |-> kind, token |-> Len(delivered) + 1, n |-> n]]
            /\ lsn' = [lsn EXCEPT ![l].pc = "process"]
            /\ UNCHANGED <<acks, listener, halt, tickQ>>
       ELSE /\ acks' = IF kind \in Discarded
                       THEN [acks EXCEPT ![Len(delivered) + 1].listener = @ + 1]
                       ELSE acks
            /\ LoopContinue(l, IF kind \in Faulty THEN [lsn[l] EXCEPT !.err = "error"]
                               ELSE lsn[l])
            /\ UNCHANGED inbox
    /\ UNCHANGED <<state, rotationStatuses, booted, halted, boot, calls,
                   onStarted, onStopped, ops, jobs, invVars>>

\* A handler that fetches the rotation statuses again for every event.
CloudDoneRefetching(l, r, instances) ==
    /\ Macro
    /\ inbox[l] # NoMsg
    /\ Len(instances) = inbox[l].n
    /\ r # "ok" => instances = [i \in 1..inbox[l].n |-> CHOOSE x \in Instances : TRUE]
    /\ jobs' = IF Emits(l, r) THEN EmitRotate(l, inbox[l], instances) ELSE jobs
    /\ acks' = IF Emits(l, r)
               THEN [acks EXCEPT ![inbox[l].token].event = EventOf(inbox[l].kind)]
               ELSE acks
    /\ inbox' = [inbox EXCEPT ![l] = NoMsg]
    /\ LET rec == [lsn[l] EXCEPT !.err = IF r # "ok" THEN r
                                         ELSE IF Emits(l, r) /\ EventOf(inbox[l].kind) # "none"
                                                 /\ HandlerThrows(l, instances) THEN "error"
                                         ELSE @]
       IN  IF lsn[l].pc = "process"
           THEN LoopContinue(l, rec)
           ELSE /\ lsn' = [lsn EXCEPT ![l] = rec]
                /\ UNCHANGED <<listener, halt, tickQ>>
    /\ boot' = IF Emits(l, r) /\ lsn[l].attached /\ EventOf(inbox[l].kind) # "none"
               THEN [boot EXCEPT ![l].rot = "pending"] ELSE boot
    /\ UNCHANGED <<state, rotationStatuses, booted, halted, calls,
                   onStarted, onStopped, ops, delivered, invVars>>

\* A Listener that deletes the message itself once it has emitted the event.
CloudDoneDeleting(l, r, instances) ==
    /\ Macro
    /\ inbox[l] # NoMsg
    /\ Len(instances) = inbox[l].n
    /\ r # "ok" => instances = [i \in 1..inbox[l].n |-> CHOOSE x \in Instances : TRUE]
    /\ jobs' = IF Emits(l, r) THEN EmitRotate(l, inbox[l], instances) ELSE jobs
    /\ acks' = IF Emits(l, r)
               THEN [acks EXCEPT ![inbox[l].token].event = EventOf(inbox[l].kind),
                                 ![inbox[l].token].listener = @ + 1]
               ELSE acks
    /\ inbox' = [inbox EXCEPT ![l] = NoMsg]
    /\ LET rec == [lsn[l] EXCEPT !.err = IF r # "ok" THEN r
                                         ELSE IF Emits(l, r) /\ EventOf(inbox[l].kind) # "none"
                                                 /\ HandlerThrows(l, instances) THEN "error"
                                         ELSE @]
       IN  IF lsn[l].pc = "process"
           THEN LoopContinue(l, rec)
           ELSE /\ lsn' = [lsn EXCEPT ![l] = rec]
                /\ UNCHANGED <<listener, halt, tickQ>>
    /\ UNCHANGED <<state, rotationStatuses, booted, halted, boot, calls,
                   onStarted, onStopped, ops, delivered, invVars>>

\* listener.js:178-222: the cloud lookups of processMessage end.  On success
\* the event is emitted with the instances' details; a failure of a lookup,
\* credentials failures included, and an exception of the handler are logged
\* by processMessage's own .catch (listener.js:220-222).  For another event
\* name nothing is emitted ("Skipping non-registration change",
\* listener.js:217-219).  Either way processMessage's promise is fulfilled and
\* the loop continues (listener.js:103-112), without deleting the message.
CloudDone(l, r, instances) ==
    /\ Macro
    /\ inbox[l] # NoMsg
    /\ Len(instances) = inbox[l].n
    /\ r # "ok" => instances = [i \in 1..inbox[l].n |-> CHOOSE x \in Instances : TRUE]
    /\ jobs' = IF Emits(l, r) THEN EmitRotate(l, inbox[l], instances) ELSE jobs
    /\ acks' = IF Emits(l, r)
               THEN [acks EXCEPT ![inbox[l].token].event = EventOf(inbox[l].kind)]
               ELSE acks
    /\ inbox' = [inbox EXCEPT ![l] = NoMsg]
    /\ LET rec == [lsn[l] EXCEPT !.err = IF r # "ok" THEN r
                                         ELSE IF Emits(l, r) /\ EventOf(inbox[l].kind) # "none"
                                                 /\ HandlerThrows(l, instances) THEN "error"
                                         ELSE @]
       IN  IF lsn[l].pc = "process"
           THEN LoopContinue(l, rec)
           ELSE /\ lsn' = [lsn EXCEPT ![l] = rec]
                /\ UNCHANGED <<listener, halt, tickQ>>
    /\ UNCHANGED <<state, rotationStatuses, booted, halted, boot, calls,
                   onStarted, onStopped, ops, delivered, invVars>>

\* A chain that calls the next mapper after a mapper reported an error.
MapperDoneGoingOn(t, i, r) ==
    /\ Macro
    /\ jobs[t].kind # "none"
    /\ i \in DOMAIN jobs[t].inst
    /\ jobs[t].inst[i].at = "map"
    /\ jobs' = [jobs EXCEPT ![t].inst[i] =
                   IF r = "fail" /\ @.k = NumMappers
                   THEN [at |-> "stuck", k |-> @.k, found |-> "-", node |-> @.node]
                   ELSE IF r = "fail"
                   THEN [at |-> "map", k |-> @.k + 1, found |-> "-", node |-> @.node]
                   ELSE IF @.k < NumMappers
                   THEN [at |-> "map", k |-> @.k + 1, found |-> "-", node |-> Append(@.node, @.k)]
                   ELSE [at |-> "find", k |-> 0, found |-> "-", node |-> Append(@.node, @.k)]]
    /\ UNCHANGED <<lifeVars, delivered, inbox, acks, invVars>>

\* orchestrator.js:276-300: custom mapper k calls back for instance i of the
\* batch of message t.  Without error the next mapper is called, and after
\* the last one the node lookup is issued (orchestrator.js:303-312); with an
\* error, which is logged with the name of the mapper, the promise of the
\* instance is neither resolved nor rejected.  `node` lists the mappers the
\* node has been through.
MapperDone(t, i, r) ==
    /\ Macro
    /\ jobs[t].kind # "none"
    /\ i \in DOMAIN jobs[t].inst
    /\ jobs[t].inst[i].at = "map"
    /\ jobs' = [jobs EXCEPT ![t].inst[i] =
                   IF r = "fail"
                   THEN [at |-> "stuck", k |-> @.k, found |-> "-", node |-> @.node]
                   ELSE IF @.k < NumMappers
                   THEN [at |-> "map", k |-> @.k + 1, found |-> "-", node |-> Append(@.node, @.k)]
                   ELSE [at |-> "find", k |-> 0, found |-> "-", node |-> Append(@.node, @.k)]]
    /\ UNCHANGED <<lifeVars, delivered, inbox, acks, invVars>>

\* What seisoClient.findNodesAsync ends with (endecoder.js:374-386).
Lookups == {"zero", "one", "many", "error"}

\* A lookup handler that patches the first node when several match.
FindDonePatchingFirstMatch(t, i, r) ==
    /\ Macro
    /\ jobs[t].kind # "none"
    /\ i \in DOMAIN jobs[t].inst
    /\ jobs[t].inst[i].at = "find"
    /\ jobs' = [jobs EXCEPT ![t].inst[i] =
                   IF r \in {"one", "many"}
                   THEN [at |-> "patching", k |-> 0, found |-> r, node |-> @.node]
                   ELSE [at |-> "rejected", k |-> 0, found |-> r, node |-> @.node]]
    /\ UNCHANGED <<lifeVars, delivered, inbox, acks, invVars>>

\* orchestrator.js:313-320: the node lookup of instance i ends.  Exactly one
\* node: the PATCH of its rotation status is issued and, its promise not
\* being returned, the instance's promise is resolved at once.  Otherwise
\* the instance's promise is rejected.
FindDone(t, i, r) ==
    /\ Macro
    /\ jobs[t].kind # "none"
    /\ i \in DOMAIN jobs[t].inst
    /\ jobs[t].inst[i].at = "find"
    /\ jobs' = [jobs EXCEPT ![t].inst[i] =
                   IF r = "one" THEN [at |-> "patching", k |-> 0, found |-> r, node |-> @.node]
                   ELSE [at |-> "rejected", k |-> 0, found |-> r, node |-> @.node]]
    /\ UNCHANGED <<lifeVars, delivered, inbox, acks, invVars>>

\* endecoder.js:601-611: the PATCH request of instance i ends.
PatchDone(t, i, r) ==
    /\ Macro
    /\ jobs[t].kind # "none"
    /\ i \in DOMAIN jobs[t].inst
    /\ jobs[t].inst[i].at = "patching"
    /\ jobs' = [jobs EXCEPT ![t].inst[i].at = IF r = "ok" THEN "patched" ELSE "patchFailed"]
    /\ UNCHANGED <<lifeVars, delivered, inbox, acks, invVars>>

\* The promise of rotateInstance is resolved (the PATCH was issued).
Resolved(x) == x.at \in {"patching", "patched", "patchFailed"}

\* The promise of rotateInstance is rejected.
Rejected(x) == x.at \in {"invalid", "rejected"}

\* A .then handler that deletes the message once for each instance.
BatchThenAcknowledgingEach(t) ==
    /\ Macro
    /\ jobs[t].chain = "pending"
    /\ \A i \in DOMAIN jobs[t].inst : Resolved(jobs[t].inst[i])
    /\ jobs' = [jobs EXCEPT ![t].chain = "done"]
    /\ acks' = IF listener # None THEN [acks EXCEPT ![t].handler = @ + Len(jobs[t].inst)] ELSE acks
    /\ UNCHANGED <<lifeVars, delivered, inbox, invVars>>

\* orchestrator.js:253-257, 339-343: every instance's promise is resolved;
\* the .then handler deletes the message through the current listener
\* (with listener null that throws into the .catch handler).
BatchThen(t) ==
    /\ Macro
    /\ jobs[t].chain = "pending"
    /\ \A i \in DOMAIN jobs[t].inst : Resolved(jobs[t].inst[i])
    /\ jobs' = [jobs EXCEPT ![t].chain = "done"]
    /\ acks' = IF listener # None THEN [acks EXCEPT ![t].handler = @ + 1] ELSE acks
    /\ UNCHANGED <<lifeVars, delivered, inbox, invVars>>

\* A .catch handler that deletes the message all the same.
BatchCatchAcknowledging(t) ==
    /\ Macro
    /\ jobs[t].chain = "pending"
    /\ \E i \in DOMAIN jobs[t].inst : Rejected(jobs[t].inst[i])
    /\ jobs' = [jobs EXCEPT ![t].chain = "done"]
    /\ acks' = [acks EXCEPT ![t].handler = @ + 1]
    /\ UNCHANGED <<lifeVars, delivered, inbox, invVars>>

\* orchestrator.js:258-260, 344-346: one instance's promise is rejected; the
\* .catch handler logs.
BatchCatch(t) ==
    /\ Macro
    /\ jobs[t].chain = "pending"
    /\ \E i \in DOMAIN jobs[t].inst : Rejected(jobs[t].inst[i])
    /\ jobs' = [jobs EXCEPT ![t].chain = "done"]
    /\ UNCHANGED <<lifeVars, delivered, inbox, acks, invVars>>


\* ================================================== inventory client

AddrNames == <<"10.0.0.1", "10.0.0.2", "10.0.0.3", "10.0.0.4", "10.0.0.5">>

Addrs == {AddrNames[i] : i \in 1..NumAddrs}

\* The two calls of the inventory client that may be in progress at once.
Procs == {1, 2}

NoClient == [pc |-> "idle", node |-> FALSE, desired |-> <<>>, existing |-> <<>>, toAdd |-> <<>>,
             work |-> <<>>, result |-> "none", error |-> "none", log |-> <<>>, got |-> <<>>,
             matches |-> "none", params |-> [tag |-> FALSE, ports |-> "missing"],
             removing |-> FALSE, removeMachine |-> FALSE]

\* No inventory call in progress, an empty inventory.
InitInventory ==
    /\ remote = [service |-> FALSE, serviceInstance |-> FALSE, roles |-> FALSE,
                 machine |-> FALSE, nodes |-> 0, ips |-> {}]
    /\ client = [p \in Procs |-> NoClient]

\* The addresses of set S in the order the inventory lists them.
RECURSIVE Listed(_, _)
Listed(S, i) ==
    IF i > Len(AddrNames) THEN <<>>
    ELSE (IF AddrNames[i] \in S THEN <<AddrNames[i]>> ELSE <<>>) \o Listed(S, i + 1)

Elems(q) == {q[i] : i \in DOMAIN q}

Request(op, ip) == [op |-> op, ip |-> ip, done |-> FALSE]

\* endecoder.js:625-633: one delete request for each existing address that
\* the desired list does not hold.
Deletes(existing, ipAddresses) ==
    LET Stale(e) == e \notin Elems(ipAddresses)
        stale == SelectSeq(existing, Stale)
    IN  [i \in DOMAIN stale |-> Request("delete", stale[i])]

\* endecoder.js:623-638: the desired addresses that were not confirmed among
\* the existing ones.
ToAdd(existing, ipAddresses) ==
    LET confirmedIpAddresses == Elems(existing) \cap Elems(ipAddresses)
        Missing(a) == a \notin confirmedIpAddresses
    IN  SelectSeq(ipAddresses, Missing)

\* endecoder.js:643-648: one callback per address to add, run when the role
\* lookup is fulfilled.  `var ipAddressToAdd` is one variable of the enclosing
\* function, so by then every callback reads the value the last iteration
\* left in it.
Creates(ipAddressesToAdd) ==
    [i \in DOMAIN ipAddressesToAdd |-> Request("create", ipAddressesToAdd[Len(ipAddressesToAdd)])]

\* endecoder.js:693-697: the request getDefaultIpAddressRole sends.
RoleRequest == [m |-> "GET", r |-> "serviceInstances/<id>/ipAddressRoles", body |-> {}]

\* endecoder.js:615-658: the GET of the node's addresses ends; the deletes
\* are issued, and the role lookup when there is something to add.  With
\* nothing to do the call is fulfilled at once.
SyncList(p) ==
    /\ client[p].pc = "list"
    /\ LET existing == Listed(remote.ips, 1)
           dels == Deletes(existing, client[p].desired)
           adds == ToAdd(existing, client[p].desired)
       IN  client' = [client EXCEPT ![p].existing = existing,
                                    ![p].work = dels,
                                    ![p].toAdd = adds,
                                    ![p].log = IF adds # <<>> THEN Append(@, RoleRequest) ELSE @,
                                    ![p].pc = IF adds # <<>> THEN "role"
                                              ELSE IF dels # <<>> THEN "wait"
                                              ELSE "done",
                                    ![p].result = IF adds = <<>> /\ dels = <<>>
                                                  THEN "ok" ELSE @]
    /\ UNCHANGED <<remote, lifeVars, rotVars>>

\* endecoder.js:709-711: the rejection of the role lookup.
NoDefaultRole == "Unable to find default IP address role"

\* The role lookup ends and the create requests are issued whether or not a
\* default role was found.
RoleDoneCreatingWithoutRole(p) ==
    /\ client[p].pc = "role"
    /\ client' = [client EXCEPT ![p].work = @ \o Creates(client[p].toAdd),
                                ![p].pc = "wait"]
    /\ UNCHANGED <<remote, lifeVars, rotVars>>

\* endecoder.js:690-714, 645-647: the lookup of the default address role
\* ends.  Found: the create requests are issued.  Not found: every create
\* promise is rejected without a request, and with them Promise.all(work);
\* the deletes already issued go on.
RoleDone(p) ==
    /\ client[p].pc = "role"
    /\ IF remote.roles
       THEN client' = [client EXCEPT ![p].work = @ \o Creates(client[p].toAdd),
                                     ![p].pc = "wait"]
       ELSE client' = [client EXCEPT ![p].pc = "done", ![p].result = "fail",
                                     ![p].error = IF client[p].result = "fail"
                                                  THEN @ ELSE NoDefaultRole]
    /\ UNCHANGED <<remote, lifeVars, rotVars>>

\* endecoder.js:961-969: the rejection of a request that ended with an error
\* status its caller does not ignore.
RequestFailed == "Request failed"

\* endecoder.js:661-688, 651-655: request k of the call ends.  Fulfilled: the
\* inventory has removed or added the address (a conflict is ignored).
\* Rejected: the inventory is as it was, and Promise.all(work) is rejected
\* with it at once, whatever the requests still in flight.
RequestDone(p, k, r) ==
    /\ k \in DOMAIN client[p].work
    /\ ~client[p].work[k].done
    /\ remote' = [remote EXCEPT !.ips = IF r = "fail" THEN @
                                        ELSE IF client[p].work[k].op = "delete"
                                        THEN @ \ {client[p].work[k].ip}
                                        ELSE @ \cup {client[p].work[k].ip}]
    /\ client' = [client EXCEPT ![p].work[k].done = TRUE,
                                ![p].result = IF r = "fail" THEN "fail" ELSE @,
                                ![p].error = IF r = "fail" /\ client[p].result # "fail"
                                             THEN RequestFailed ELSE @]
    /\ UNCHANGED <<lifeVars, rotVars>>

\* endecoder.js:651-655: every request has ended; the call is fulfilled
\* unless one of them has rejected it already.
SyncFinish(p) ==
    /\ client[p].pc = "wait"
    /\ \A k \in DOMAIN client[p].work : client[p].work[k].done
    /\ client' = [client EXCEPT ![p].pc = "done",
                                ![p].result = IF @ = "fail" THEN "fail" ELSE "ok"]
    /\ UNCHANGED <<remote, lifeVars, rotVars>>


\* --------------------------------------------------------- node upsert

\* The address of the instance both upsert calls describe.
UpsertAddr == AddrNames[1]

\* The candidates upsertNodeAsync is called with, as far as its validation
\* looks at them (endecoder.js:91-98): the 'AWS Instance ID' tag present or
\* not; the ports missing, not an array, an empty array, a list of ports.
Payloads == [tag : BOOLEAN, ports : {"missing", "notArray", "empty", "list"}]

\* A validation that does not look at the ports.
validationErrorsIgnoringPorts(params) ==
    IF ~params.tag THEN <<"Required tag 'AWS Instance ID' not present">> ELSE <<>>

\* endecoder.js:90-98: the validation errors of a candidate.
validationErrors(params) ==
    (IF ~params.tag THEN <<"Required tag 'AWS Instance ID' not present">> ELSE <<>>)
    \o (IF params.ports # "list"
        THEN <<"At least one port must be specified (or ports are not in correct format)">>
        ELSE <<>>)

\* What a natural-key lookup made after a creation conflict would return.
Matches == {"zero", "one", "many"}

\* endecoder.js:436-438, 507-514, 796-803: the errors with which a create
\* operation reports that the lookup after a conflict found no record, or
\* several.
ConsistencyErrors ==
    {"Creation of service instance failed with conflict but service instance not found",
     "Node creation failed with conflict but node does not exist",
     "Node creation failed with conflict and node retrieval found multiple matching nodes",
     "Machine creation failed with conflict but machine does not exist",
     "Machine creation failed with conflict and machine retrieval found multiple matching machines"}

\* endecoder.js:485-488, 535-538: the fields of the body of POST nodes/ and
\* of PUT nodes/<id>.
NodeBody == {"name", "serviceInstance", "machine"}

\* The request a call waits for at each of its steps: method, resource and,
\* for the node requests, the fields of the body.
RequestOf(pc) ==
    CASE pc = "findNode" -> [m |-> "GET", r |-> "nodes/search/findByName", body |-> {}]
      [] pc = "getService" -> [m |-> "GET", r |-> "services/search/findByKey", body |-> {}]
      [] pc = "createService" -> [m |-> "POST", r |-> "services/", body |-> {"key", "name"}]
      [] pc = "getServiceInstance" -> [m |-> "GET", r |-> "serviceInstances/search/findByKey", body |-> {}]
      [] pc = "createServiceInstance" -> [m |-> "POST", r |-> "serviceInstances/", body |-> {}]
      [] pc = "serviceInstanceExtras" -> [m |-> "POST", r |-> "serviceInstancePorts/", body |-> {}]
      [] pc = "findMachine" -> [m |-> "GET", r |-> "machines/search/findByName", body |-> {}]
      [] pc = "updateMachine" -> [m |-> "PUT", r |-> "machines/<id>", body |-> {}]
      [] pc = "createMachine" -> [m |-> "POST", r |-> "machines/", body |-> {}]
      [] pc = "createNode" -> [m |-> "POST", r |-> "nodes/", body |-> NodeBody]
      [] pc = "updateNode" -> [m |-> "PUT", r |-> "nodes/<id>", body |-> NodeBody]
      [] pc = "list" -> [m |-> "GET", r |-> "nodes/<id>/ipAddresses", body |-> {}]
      [] pc = "role" -> RoleRequest
      [] pc = "removeFind" -> [m |-> "GET", r |-> "nodes/search/findByName", body |-> {}]
      [] pc = "removeGetMachine" -> [m |-> "GET", r |-> "nodes/<id>/machine", body |-> {}]
      [] pc = "removeNode" -> [m |-> "DELETE", r |-> "nodes/<id>", body |-> {}]
      [] pc = "removeMachine" -> [m |-> "DELETE", r |-> "machines/<id>", body |-> {}]
      [] pc = "removeConfirm" -> [m |-> "GET", r |-> "machines/<id>", body |-> {}]

\* Call p ends rejected with the error.
Fail(p, error) == [client EXCEPT ![p].pc = "done", ![p].result = "fail", ![p].error = error]

\* Call p issues the request of step pc and waits for it.
Goto(p, pc) == [client EXCEPT ![p].pc = pc, ![p].log = Append(@, RequestOf(pc))]

\* Call p has obtained the record dep and issues the request of step pc.
Got(p, dep, pc) ==
    [client EXCEPT ![p].pc = pc, ![p].log = Append(@, RequestOf(pc)),
                   ![p].got = Append(@, dep)]

\* endecoder.js:87-122: upsertNodeAsync is called.  A candidate with
\* validation errors is rejected at once; else the node lookup is issued.
UpsertNode(p, params) ==
    /\ client[p].pc = "idle"
    /\ client' = IF validationErrors(params) # <<>>
                 THEN [client EXCEPT ![p].pc = "done", ![p].result = "fail",
                                     ![p].error = "validation", ![p].params = params]
                 ELSE [Goto(p, "findNode") EXCEPT ![p].result = "pending",
                                                  ![p].params = params]
    /\ UNCHANGED <<remote, lifeVars, rotVars>>

\* A lookup handler that goes on with the first node when several match.
UpsertFindNodeTakingFirst(p) ==
    /\ client[p].pc = "findNode"
    /\ client' = [Goto(p, "getService") EXCEPT ![p].node = remote.nodes > 0]
    /\ UNCHANGED <<remote, lifeVars, rotVars>>

\* endecoder.js:123-134, 374-386: findByName ends (a 404 is ignored).
\* Several nodes: the call is rejected.  Else `node` is set when a node was
\* found, and the service lookup is issued.
UpsertFindNode(p) ==
    /\ client[p].pc = "findNode"
    /\ client' = IF remote.nodes > 1
                 THEN Fail(p, "Multiple nodes already exist with that AWS instance ID")
                 ELSE [Goto(p, "getService") EXCEPT ![p].node = remote.nodes > 0]
    /\ UNCHANGED <<remote, lifeVars, rotVars>>

\* endecoder.js:135-152, 334-345: the service lookup ends; a missing service
\* is created, else the service-instance lookup is issued.
UpsertGetService(p) ==
    /\ client[p].pc = "getService"
    /\ client' = IF remote.service THEN Got(p, "service", "getServiceInstance")
                 ELSE Goto(p, "createService")
    /\ UNCHANGED <<remote, lifeVars, rotVars>>

\* endecoder.js:402-412, 147-152: POST services/ ends.  A conflict rejects
\* the call (no handler, no lookup); else the service-instance lookup is
\* issued.
UpsertCreateService(p, m) ==
    /\ client[p].pc = "createService"
    /\ IF remote.service
       THEN client' = [Fail(p, "409") EXCEPT ![p].matches = m] /\ UNCHANGED remote
       ELSE /\ remote' = [remote EXCEPT !.service = TRUE]
            /\ client' = Got(p, "service", "getServiceInstance")
    /\ UNCHANGED <<lifeVars, rotVars>>

\* endecoder.js:153-192, 347-358: the service-instance lookup ends; a missing
\* one is created, else the machine lookup is issued.
UpsertGetServiceInstance(p) ==
    /\ client[p].pc = "getServiceInstance"
    /\ client' = IF remote.serviceInstance THEN Got(p, "serviceInstance", "findMachine")
                 ELSE Goto(p, "createServiceInstance")
    /\ UNCHANGED <<remote, lifeVars, rotVars>>

\* endecoder.js:414-445: POST serviceInstances/ ends.  On a conflict the
\* handler looks the instance up under the key made of the service link and
\* the environment link, which no instance has, and rejects.  Else the ports
\* and the default address role are posted.
UpsertCreateServiceInstance(p, m) ==
    /\ client[p].pc = "createServiceInstance"
    /\ IF remote.serviceInstance
       THEN /\ client' = [Fail(p, "Creation of service instance failed with conflict but service instance not found")
                            EXCEPT ![p].matches = m,
                                   ![p].log = Append(@, RequestOf("getServiceInstance"))]
            /\ UNCHANGED remote
       ELSE /\ remote' = [remote EXCEPT !.serviceInstance = TRUE]
            /\ client' = Goto(p, "serviceInstanceExtras")
    /\ UNCHANGED <<lifeVars, rotVars>>

\* endecoder.js:446-478, 174-192: the ports and the default address role are
\* created (conflicts ignored); the machine lookup is issued.
UpsertServiceInstanceExtras(p) ==
    /\ client[p].pc = "serviceInstanceExtras"
    /\ remote' = [remote EXCEPT !.roles = TRUE]
    /\ client' = Got(p, "serviceInstance", "findMachine")
    /\ UNCHANGED <<lifeVars, rotVars>>

\* endecoder.js:716-735: the machine lookup ends; the machine is updated or
\* created.
UpsertFindMachine(p) ==
    /\ client[p].pc = "findMachine"
    /\ client' = Goto(p, IF remote.machine THEN "updateMachine" ELSE "createMachine")
    /\ UNCHANGED <<remote, lifeVars, rotVars>>

\* An upsert that creates the node whatever its lookup found.
NodeStepAlwaysCreate(p) == "createNode"

\* endecoder.js:193-222: with the machine at hand the node is created when
\* the lookup at the start found none, else updated.
NodeStep(p) == IF client[p].node THEN "updateNode" ELSE "createNode"

\* endecoder.js:816-824: PUT machines/<id> ends.
UpsertUpdateMachine(p) ==
    /\ client[p].pc = "updateMachine"
    /\ client' = Got(p, "machine", NodeStep(p))
    /\ UNCHANGED <<remote, lifeVars, rotVars>>

\* A machine step whose conflict does not stop the upsert.
UpsertCreateMachineGoingOn(p, m) ==
    /\ client[p].pc = "createMachine"
    /\ IF remote.machine
       THEN client' = [Goto(p, NodeStep(p)) EXCEPT ![p].matches = m] /\ UNCHANGED remote
       ELSE /\ remote' = [remote EXCEPT !.machine = TRUE]
            /\ client' = Got(p, "machine", NodeStep(p))
    /\ UNCHANGED <<lifeVars, rotVars>>

\* endecoder.js:782-814, 389-400: POST machines/ ends.  On a conflict the
\* handler calls getMachinesByNameAsync, which reads the undefined `options`
\* and throws before any lookup is issued: the call is rejected.
UpsertCreateMachine(p, m) ==
    /\ client[p].pc = "createMachine"
    /\ IF remote.machine
       THEN client' = [Fail(p, "ReferenceError") EXCEPT ![p].matches = m] /\ UNCHANGED remote
       ELSE /\ remote' = [remote EXCEPT !.machine = TRUE]
            /\ client' = Got(p, "machine", NodeStep(p))
    /\ UNCHANGED <<lifeVars, rotVars>>

\* endecoder.js:481-528: POST nodes/ ends.  On a conflict the handler reads
\* `params.tags`, and `params` is not defined in createNodeAsync: it throws
\* before any lookup is issued and the call is rejected.  Else the node
\* exists and its addresses are synchronised with the one address of the
\* payload.
UpsertCreateNode(p, m) ==
    /\ client[p].pc = "createNode"
    /\ IF remote.nodes > 0
       THEN client' = [Fail(p, "ReferenceError") EXCEPT ![p].matches = m] /\ UNCHANGED remote
       ELSE /\ remote' = [remote EXCEPT !.nodes = @ + 1]
            /\ client' = [Goto(p, "list") EXCEPT ![p].desired = <<UpsertAddr>>]
    /\ UNCHANGED <<lifeVars, rotVars>>

\* endecoder.js:531-543, 576-578: PUT nodes/<id> ends; the node's addresses
\* are synchronised with the one address of the payload.
UpsertUpdateNode(p) ==
    /\ client[p].pc = "updateNode"
    /\ client' = [Goto(p, "list") EXCEPT ![p].desired = <<UpsertAddr>>]
    /\ UNCHANGED <<remote, lifeVars, rotVars>>

\* --------------------------------------------------------- node removal

\* The steps of removeNodeAsync.
RemoveSteps == {"removeFind", "removeGetMachine", "removeNode", "removeMachine", "removeConfirm"}

\* Call p ends fulfilled.
Fulfil(p) == [client EXCEPT ![p].pc = "done", ![p].result = "ok"]

\* endecoder.js:244-254: removeNodeAsync is called and looks the node up.
RemoveNodeAsync(p, removeMachine) ==
    /\ client[p].pc = "idle"
    /\ client' = [Goto(p, "removeFind") EXCEPT ![p].result = "pending",
                                               ![p].removing = TRUE,
                                               ![p].removeMachine = removeMachine]
    /\ UNCHANGED <<remote, lifeVars, rotVars>>

\* A lookup handler that fetches the machine whether or not the caller asked
\* for its removal.
RemoveFindAlwaysMachine(p) ==
    /\ client[p].pc = "removeFind"
    /\ client' = IF remote.nodes = 0 THEN Fulfil(p)
                 ELSE [Goto(p, "removeGetMachine") EXCEPT ![p].node = TRUE]
    /\ UNCHANGED <<remote, lifeVars, rotVars>>

\* endecoder.js:255-290: the node lookup ends (a 404 is ignored).  No node:
\* nothing is removed.  A node: its machine is fetched when removeMachine is
\* set, else the node is deleted.
RemoveFind(p) ==
    /\ client[p].pc = "removeFind"
    /\ client' = IF remote.nodes = 0 THEN Fulfil(p)
                 ELSE IF client[p].removeMachine
                 THEN [Goto(p, "removeGetMachine") EXCEPT ![p].node = TRUE]
                 ELSE [Goto(p, "removeNode") EXCEPT ![p].node = TRUE]
    /\ UNCHANGED <<remote, lifeVars, rotVars>>

\* endecoder.js:260-270: the machine of the node is fetched; the call is
\* rejected when the node or its machine is gone.
RemoveGetMachine(p) ==
    /\ client[p].pc = "removeGetMachine"
    /\ client' = IF remote.nodes > 0 /\ remote.machine
                 THEN Got(p, "machine", "removeNode")
                 ELSE Fail(p, RequestFailed)
    /\ UNCHANGED <<remote, lifeVars, rotVars>>

\* endecoder.js:277-293: the DELETE of the node ends; the machine, when one
\* was fetched, is deleted next.
RemoveNode(p) ==
    /\ client[p].pc = "removeNode"
    /\ IF remote.nodes = 0
       THEN /\ client' = Fail(p, RequestFailed)
            /\ UNCHANGED remote
       ELSE /\ remote' = [remote EXCEPT !.nodes = @ - 1]
            /\ client' = IF "machine" \in Elems(client[p].got)
                         THEN Goto(p, "removeMachine")
                         ELSE Fulfil(p)
    /\ UNCHANGED <<lifeVars, rotVars>>

\* endecoder.js:294-329: the DELETE of the machine ends.  Done (a 404 is
\* ignored): the call is fulfilled.  Conflict: the machine is fetched again.
RemoveMachine(p, r) ==
    /\ client[p].pc = "removeMachine"
    /\ IF r = "conflict"
       THEN /\ client' = Goto(p, "removeConfirm")
            /\ UNCHANGED remote
       ELSE /\ remote' = [remote EXCEPT !.machine = FALSE]
            /\ client' = Fulfil(p)
    /\ UNCHANGED <<lifeVars, rotVars>>

\* endecoder.js:306-320: after a conflict the call is rejected when the
\* machine still exists and fulfilled when it is gone.
RemoveConfirm(p) ==
    /\ client[p].pc = "removeConfirm"
    /\ client' = IF remote.machine
                 THEN Fail(p, "Machine deletion failed with conflict but machine still exists")
                 ELSE Fulfil(p)
    /\ UNCHANGED <<remote, lifeVars, rotVars>>

\* ------------------------------------------------------- seisoRequest

\* endecoder.js:18-19.
ERROR_NOT_FOUND == 404
ERROR_CONFLICT == 409

\* The statuses a response may carry: success, the two statuses callers
\* ignore, and another error.
OK == 200
ServerError == 500
StatusCodes == {OK, ERROR_NOT_FOUND, ERROR_CONFLICT, ServerError}

\* The functions through which a request is made: seisoRequest itself with
\* the caller's list of ignored codes, or a wrapper that lists none.
Callers == {"seisoRequest", "getLoadBalancersAsync", "getNodesAsync"}

Fulfilled(value) == [settled |-> "fulfilled", value |-> value, error |-> 0]
RejectedWith(error) == [settled |-> "rejected", value |-> "none", error |-> error]

\* endecoder.js:940-970: request-promise rejects a response with an error
\* status; the .catch fulfils with null when the status is among the
\* caller's ignoredErrorCodes and rejects with the error otherwise.
seisoRequest(statusCode, ignoredErrorCodes) ==
    IF statusCode = OK THEN Fulfilled("data")
    ELSE IF statusCode \in ignoredErrorCodes THEN Fulfilled("null")
    ELSE RejectedWith(statusCode)

\* endecoder.js:741-757, 759-775: the wrappers list no ignored code; their
\* .catch rejects for a 404 and returns nothing for any other error, which
\* fulfils the promise with undefined.
getLoadBalancersAsync(statusCode) ==
    LET r == seisoRequest(statusCode, {})
    IN  IF r.settled = "fulfilled" THEN r
        ELSE IF r.error = ERROR_NOT_FOUND THEN RejectedWith(ERROR_NOT_FOUND)
        ELSE Fulfilled("undefined")

NoCall == [pc |-> "idle", caller |-> "none", ignoredErrorCodes |-> {}, statusCode |-> 0,
           outcome |-> [settled |-> "pending", value |-> "none", error |-> 0]]

\* Call p sends a request through the caller, with the list of ignored
\* codes when it uses seisoRequest directly.
SendRequest(p, caller, ignoredErrorCodes) ==
    /\ client[p].pc = "idle"
    /\ caller # "seisoRequest" => ignoredErrorCodes = {}
    /\ client' = [client EXCEPT ![p] = [NoCall EXCEPT !.pc = "sent", !.caller = caller,
                                                    !.ignoredErrorCodes = ignoredErrorCodes]]
    /\ UNCHANGED <<remote, lifeVars, rotVars>>

\* The response of call p arrives and the promise of the caller settles.
ReceiveResponse(p, statusCode) ==
    /\ client[p].pc = "sent"
    /\ client' = [client EXCEPT ![p].pc = "done", ![p].statusCode = statusCode,
                                ![p].outcome = IF client[p].caller = "seisoRequest"
                                               THEN seisoRequest(statusCode, client[p].ignoredErrorCodes)
                                               ELSE getLoadBalancersAsync(statusCode)]
    /\ UNCHANGED <<remote, lifeVars, rotVars>>

\* ------------------------------------------------------ specification

\* orchestrator.js:24-27: the closure variables of a new orchestrator.
InitLife ==
    /\ state = "Stopped"
    /\ listener = None
    /\ rotationStatuses = "empty"
    /\ booted = 0
    /\ halted = 0
    /\ lsn = [l \in Boots |-> NoListener]
    /\ boot = [b \in Boots |-> NoBoot]
    /\ halt = [s \in Halts |-> NoHalt]
    /\ calls = [c \in Calls |-> NoCallRec]
    /\ onStarted = <<>>
    /\ onStopped = <<>>
    /\ tickQ = <<>>
    /\ ops = 0

Init ==
    /\ InitLife
    /\ InitRotation
    /\ InitInventory

\* The lifecycle on its own: the queue delivers no message and no inventory
\* call is made.
LifeFrame == UNCHANGED <<rotVars, invVars>>

Next ==
    \/ (\E c \in Calls : Start(c)) /\ LifeFrame
    \/ (\E c \in Calls : Stop(c)) /\ LifeFrame
    \/ (RunTick) /\ LifeFrame
    \/ (\E b \in Boots, r \in Outcome : ConnectDone(b, r)) /\ LifeFrame
    \/ (\E b \in Boots, m \in Mappers, r \in Outcome : MapperStartDone(b, m, r)) /\ LifeFrame
    \/ (\E s \in Halts, m \in Mappers, r \in Outcome : MapperStopDone(s, m, r)) /\ LifeFrame
    \/ (\E b \in Boots : BootCatch(b)) /\ LifeFrame
    \/ (\E b \in Boots : BootThen(b)) /\ LifeFrame
    \/ (\E s \in Halts : HaltCatch(s)) /\ LifeFrame
    \/ (\E s \in Halts : HaltThen(s)) /\ LifeFrame
    \/ (\E l \in Boots, o \in EmptyPolls : PollDone(l, o)) /\ LifeFrame

Spec == Init /\ [][Next]_vars

\* The event loop runs every queued tick and every handler of a settled
\* promise, and every request that was issued (connect, mapper start and
\* stop, poll) is answered at some time.  Nothing obliges the application to
\* call start() or stop().
LifeFairness ==
    /\ WF_vars(RunTick /\ LifeFrame)
    /\ WF_vars((\E b \in Boots, r \in Outcome : ConnectDone(b, r)) /\ LifeFrame)
    /\ WF_vars((\E b \in Boots, m \in Mappers, r \in Outcome : MapperStartDone(b, m, r)) /\ LifeFrame)
    /\ WF_vars((\E s \in Halts, m \in Mappers, r \in Outcome : MapperStopDone(s, m, r)) /\ LifeFrame)
    /\ WF_vars((\E b \in Boots : BootCatch(b)) /\ LifeFrame)
    /\ WF_vars((\E b \in Boots : BootThen(b)) /\ LifeFrame)
    /\ WF_vars((\E s \in Halts : HaltCatch(s)) /\ LifeFrame)
    /\ WF_vars((\E s \in Halts : HaltThen(s)) /\ LifeFrame)
    /\ \A l \in Boots : WF_vars((\E o \in EmptyPolls : PollDone(l, o)) /\ LifeFrame)

SpecLive == Init /\ [][Next]_vars /\ LifeFairness

\* The pipeline after a successful start(): state Started, Listener 1
\* polling, the handlers attached, the rotation-status fetch still pending.
InitRotate ==
    /\ state = "Started"
    /\ listener = 1
    /\ rotationStatuses = "empty"
    /\ booted = 1
    /\ halted = 0
    /\ lsn = [l \in Boots |-> IF l = 1
                THEN [state |-> "Started", listen |-> TRUE, pc |-> "poll",
                      attached |-> TRUE, once |-> <<>>, err |-> "none", emitted |-> 0]
                ELSE NoListener]
    /\ boot = [b \in Boots |-> IF b = 1
                THEN [conn |-> "-", lcb |-> "-", maps |-> AllMaps("-"),
                      rot |-> "pending", chain |-> "done", result |-> "ok"]
                ELSE NoBoot]
    /\ halt = [s \in Halts |-> NoHalt]
    /\ calls = [c \in Calls |-> NoCallRec]
    /\ onStarted = <<>>
    /\ onStopped = <<>>
    /\ tickQ = <<>>
    /\ ops = 0
    /\ InitRotation
    /\ InitInventory

\* The started pipeline at work: nobody calls start() or stop().
NextRotate ==
    \/ RunTick /\ UNCHANGED <<rotVars, invVars>>
    \/ (\E b \in Boots, r \in Outcome : RotationStatusesDone(b, r)) /\ UNCHANGED <<rotVars, invVars>>
    \/ (\E l \in Boots, o \in EmptyPolls : PollDone(l, o)) /\ UNCHANGED <<rotVars, invVars>>
    \/ \E l \in Boots, k \in MessageKinds, n \in 0..MaxBatch, asg \in BOOLEAN :
          PollMessage(l, k, n, asg)
    \/ \E l \in Boots, r \in CloudResults, b \in Batches : CloudDone(l, r, b)
    \/ \E t \in Tokens, i \in 1..MaxBatch, r \in Outcome : MapperDone(t, i, r)
    \/ \E t \in Tokens, i \in 1..MaxBatch, r \in Lookups : FindDone(t, i, r)
    \/ \E t \in Tokens, i \in 1..MaxBatch, r \in Outcome : PatchDone(t, i, r)
    \/ \E t \in Tokens : BatchThen(t)
    \/ \E t \in Tokens : BatchCatch(t)

SpecRotate == InitRotate /\ [][NextRotate]_vars

\* A step of the reconciliation of a batch: a mapper, lookup or patch is
\* answered, or a handler of the batch's Promise.all runs.
JobStep ==
    \/ \E t \in Tokens, i \in 1..MaxBatch, r \in Outcome : MapperDone(t, i, r)
    \/ \E t \in Tokens, i \in 1..MaxBatch, r \in Lookups : FindDone(t, i, r)
    \/ \E t \in Tokens, i \in 1..MaxBatch, r \in Outcome : PatchDone(t, i, r)
    \/ \E t \in Tokens : BatchThen(t)
    \/ \E t \in Tokens : BatchCatch(t)

\* The event loop runs every queued tick and every handler that is ready,
\* and every request that was issued (status fetch, poll, cloud lookup,
\* mapper call, node lookup, patch) is answered at some time.  The steps of
\* the batches share one condition: each of them moves one batch forward and
\* none can be taken twice, so a step that stays possible is taken.
RotateFairness ==
    /\ SF_vars(RunTick /\ UNCHANGED <<rotVars, invVars>>)
    /\ SF_vars((\E b \in Boots, r \in Outcome : RotationStatusesDone(b, r))
                 /\ UNCHANGED <<rotVars, invVars>>)
    /\ SF_vars(\/ (\E l \in Boots, o \in EmptyPolls : PollDone(l, o)) /\ UNCHANGED <<rotVars, invVars>>
               \/ \E l \in Boots, k \in MessageKinds, n \in 0..MaxBatch, asg \in BOOLEAN :
                     PollMessage(l, k, n, asg))
    /\ SF_vars(\E l \in Boots, r \in CloudResults, b \in Batches : CloudDone(l, r, b))
    /\ SF_vars(JobStep)

SpecRotateLive == InitRotate /\ [][NextRotate]_vars /\ RotateFairness

\* The started pipeline at work until stop() is called on it, once, and the
\* shutdown that follows.
NextShutdown ==
    \/ NextRotate
    \/ (state = "Started" /\ Stop(None)) /\ LifeFrame
    \/ (\E x \in Halts, m \in Mappers, r \in Outcome : MapperStopDone(x, m, r)) /\ LifeFrame
    \/ (\E x \in Halts : HaltCatch(x)) /\ LifeFrame
    \/ (\E x \in Halts : HaltThen(x)) /\ LifeFrame

SpecShutdown == InitRotate /\ [][NextShutdown]_vars

\* The lifecycle of an orchestrator that has been started: start() and stop()
\* calls on the running pipeline.
SpecStarted == InitRotate /\ [][Next]_vars

\* Duplicate-free lists of addresses.
AddrLists == {q \in UNION {[1..n -> Addrs] : n \in 0..NumAddrs} :
                 \A i, j \in DOMAIN q : q[i] = q[j] => i = j}

\* syncNodeIpAddressesAsync called for a node that has the addresses E, with
\* the desired list D; the service instance may or may not have a default
\* address role.
InitSync ==
    /\ InitLife
    /\ InitRotation
    /\ \E E \in SUBSET Addrs, D \in AddrLists, role \in BOOLEAN :
          /\ remote = [service |-> TRUE, serviceInstance |-> TRUE, roles |-> role,
                       machine |-> TRUE, nodes |-> 1, ips |-> E]
          /\ client = [p \in Procs |-> IF p = 1
                          THEN [NoClient EXCEPT !.pc = "list", !.node = TRUE, !.desired = D,
                                                !.result = "pending"]
                          ELSE NoClient]

NextSync ==
    \/ \E p \in Procs : SyncList(p)
    \/ \E p \in Procs : RoleDone(p)
    \/ \E p \in Procs, k \in 1..(2 * NumAddrs), r \in Outcome : RequestDone(p, k, r)
    \/ \E p \in Procs : SyncFinish(p)

SpecSync == InitSync /\ [][NextSync]_vars

\* The inventories two upsert calls for one instance may find: the service,
\* its instance (with its default address role), the machine and the node
\* may or may not exist yet.
Inventories ==
    {r \in [service : BOOLEAN, serviceInstance : BOOLEAN, roles : BOOLEAN,
            machine : BOOLEAN, nodes : {0, 1, 2}, ips : SUBSET {UpsertAddr}] :
        /\ r.serviceInstance => r.service
        /\ r.roles = r.serviceInstance
        /\ r.nodes > 0 => r.serviceInstance /\ r.machine
        /\ r.nodes = 0 => r.ips = {}}

InitUpsert ==
    /\ InitLife
    /\ InitRotation
    /\ remote \in Inventories
    /\ client = [p \in Procs |-> NoClient]

NextUpsert ==
    \/ \E p \in Procs, params \in Payloads : UpsertNode(p, params)
    \/ \E p \in Procs : UpsertFindNode(p)
    \/ \E p \in Procs : UpsertGetService(p)
    \/ \E p \in Procs, m \in Matches : UpsertCreateService(p, m)
    \/ \E p \in Procs : UpsertGetServiceInstance(p)
    \/ \E p \in Procs, m \in Matches : UpsertCreateServiceInstance(p, m)
    \/ \E p \in Procs : UpsertServiceInstanceExtras(p)
    \/ \E p \in Procs : UpsertFindMachine(p)
    \/ \E p \in Procs : UpsertUpdateMachine(p)
    \/ \E p \in Procs, m \in Matches : UpsertCreateMachine(p, m)
    \/ \E p \in Procs, m \in Matches : UpsertCreateNode(p, m)
    \/ \E p \in Procs : UpsertUpdateNode(p)
    \/ \E p \in Procs : SyncList(p)
    \/ \E p \in Procs : RoleDone(p)
    \/ \E p \in Procs, k \in 1..(2 * NumAddrs), r \in Outcome : RequestDone(p, k, r)
    \/ \E p \in Procs : SyncFinish(p)

SpecUpsert == InitUpsert /\ [][NextUpsert]_vars

\* A removal is in flight.
Removing == \E p \in Procs : client[p].pc \in RemoveSteps

\* An upsert is in flight.
Upserting == \E p \in Procs : client[p].pc \notin RemoveSteps \cup {"idle", "done"}

\* Upserts and removals of the node of one instance: two calls, each an
\* upsert or a removal; a removal is not started while an upsert is in
\* flight, nor an upsert while a removal is.
NextRemove ==
    \/ NextUpsert /\ ~Removing
    \/ \E p \in Procs, removeMachine \in BOOLEAN : RemoveNodeAsync(p, removeMachine) /\ ~Upserting
    \/ \E p \in Procs : RemoveFind(p)
    \/ \E p \in Procs : RemoveGetMachine(p)
    \/ \E p \in Procs : RemoveNode(p)
    \/ \E p \in Procs, r \in {"done", "conflict"} : RemoveMachine(p, r)
    \/ \E p \in Procs : RemoveConfirm(p)

SpecRemove == InitUpsert /\ [][NextRemove]_vars

\* Two requests to the inventory, through every caller, with every list of
\* ignored codes and every response status.
InitRequest ==
    /\ InitLife
    /\ InitRotation
    /\ remote = [service |-> FALSE, serviceInstance |-> FALSE, roles |-> FALSE,
                 machine |-> FALSE, nodes |-> 0, ips |-> {}]
    /\ client = [p \in Procs |-> NoCall]

NextRequest ==
    \/ \E p \in Procs, caller \in Callers, ignoredErrorCodes \in SUBSET {ERROR_NOT_FOUND, ERROR_CONFLICT} :
          SendRequest(p, caller, ignoredErrorCodes)
    \/ \E p \in Procs, statusCode \in StatusCodes : ReceiveResponse(p, statusCode)

SpecRequest == InitRequest /\ [][NextRequest]_vars

\* ====================================================== lifecycle claims

Range(q) == {q[i] : i \in DOMAIN q}

\* The callback of call c is still to be invoked from the nextTick queue.
Queued(c, r) == \E i \in DOMAIN tickQ : tickQ[i] = CbTask(c, r)

\* The start attempt of bootstrap b finishes in this step (its promise chain
\* has run its last handler).
BootFinishes(b) == boot[b].chain # "done" /\ boot'[b].chain = "done"

\* The shutdown s finishes in this step.
HaltFinishes(s) == halt[s].chain # "done" /\ halt'[s].chain = "done"

\* C1: the state becomes Started only when a start attempt finishes with the
\* connectivity check, the listener start and every mapper start hook
\* succeeded; a start attempt that finishes after one of them failed leaves
\* the state Stopped, not Started.
C1_StartedOnlyIfAllSucceeded ==
    [][/\ (state # "Started" /\ state' = "Started")
            => \E b \in Boots : BootFinishes(b) /\ boot'[b].result = "ok"
       /\ \A b \in Boots : (BootFinishes(b) /\ boot'[b].result = "fail")
            => state' = "Stopped"]_vars

\* C2: a stop() initiated from Started ends in Stopped when the listener's
\* stopped acknowledgment and every mapper stop hook succeeded, and ends in
\* Unknown, with the error on its way to the stop caller's callback, when a
\* stop hook failed.
C2_StopEndsStoppedOrUnknown ==
    [][\A s \in Halts :
         (HaltFinishes(s) /\ calls[halt[s].cb].from = "Started")
           => /\ halt'[s].result = "ok" => state' = "Stopped"
              /\ halt'[s].result = "fail"
                   => /\ state' = "Unknown"
                      /\ \E i \in DOMAIN tickQ' : tickQ'[i] = CbTask(halt[s].cb, "err")]_vars

\* C7: start(callback) in state Started returns false, changes neither the
\* state nor any component, subscription or pending remote call, and the
\* callback is invoked exactly once, from a later tick, with no error.
C7_StartWhenStartedIsNoOp ==
    /\ [][\A c \in Calls :
            (calls[c].kind = "none" /\ calls'[c].kind = "start" /\ state = "Started")
              => /\ calls'[c].ret = "false"
                 /\ calls'[c].log = <<>>
                 /\ tickQ' = Append(tickQ, CbTask(c, "ok"))
                 /\ UNCHANGED <<state, listener, rotationStatuses, booted, halted,
                                lsn, boot, halt, onStarted, onStopped>>]_vars
    /\ [](\A c \in Calls :
            (calls[c].kind = "start" /\ calls[c].from = "Started")
              => /\ c \notin Range(onStarted) \cup Range(onStopped)
                 /\ ~Queued(c, "err")
                 /\ \/ calls[c].log = <<>> /\ Queued(c, "ok")
                    \/ calls[c].log = <<"ok">> /\ ~Queued(c, "ok"))

\* C7 witness: a start(callback) made in state Started has called back.
C7_Witness ==
    \E c \in Calls : calls[c].kind = "start" /\ calls[c].from = "Started"
                     /\ calls[c].log = <<"ok">>

\* C8: start() in state Starting returns false and bootstraps nothing; the
\* components are constructed and started exactly when the state enters
\* Starting, once per entry.
C8_OneBootstrapPerStarting ==
    [][/\ \A c \in Calls :
            (calls[c].kind = "none" /\ calls'[c].kind = "start" /\ state = "Starting")
              => /\ calls'[c].ret = "false"
                 /\ UNCHANGED <<state, listener, booted, lsn, boot, rotationStatuses>>
       /\ (booted' # booted \/ \E l \in Boots : lsn[l].state = "none" /\ lsn'[l].state # "none")
            => /\ state # "Starting" /\ state' = "Starting"
               /\ booted' = booted + 1
               /\ listener' = booted'
               /\ lsn[booted'].state = "none" /\ lsn'[booted'].state = "Started"
               /\ \A l \in Boots \ {booted'} : lsn'[l] = lsn[l]
       /\ (state # "Starting" /\ state' = "Starting") => booted' = booted + 1]_vars

\* C8 witness: two start() calls arrived while the first bootstrap was under
\* way, and that bootstrap has finished as the only one.
C8_Witness ==
    /\ booted = 1 /\ boot[1].chain = "done"
    /\ \E c, d \in Calls : c # d /\ calls[c].kind = "start" /\ calls[d].kind = "start"
                           /\ calls[c].from = "Starting" /\ calls[d].from = "Starting"

\* C9: a completion callback of start(callback) that was invoked with the
\* failure of the start attempt is invoked exactly once: never again, and
\* never with success.
C9_FailureNotifiedExactlyOnce ==
    \A c \in Calls :
        (calls[c].kind = "start" /\ "err" \in Range(calls[c].log))
          => calls[c].log = <<"err">>

\* C10: once the state is Unknown it stays Unknown.
C10_UnknownIsTerminal ==
    [][state = "Unknown" => state' = "Unknown"]_vars

\* ======================================================= rotation claims

\* The batch of message t has an instance whose mapper chain, node lookup or
\* PATCH has not ended, or its Promise.all handlers have not run.
BatchInFlight(t) ==
    /\ jobs[t].kind # "none"
    /\ \/ jobs[t].chain = "pending"
       \/ \E i \in DOMAIN jobs[t].inst : jobs[t].inst[i].at \in {"map", "find", "patching"}

\* The batch of message t is over: its handlers ran and no request of any of
\* its instances is outstanding.
BatchSettled(t) ==
    /\ jobs[t].chain = "done"
    /\ \A i \in DOMAIN jobs[t].inst : jobs[t].inst[i].at \notin {"map", "find", "patching"}

\* C3: for every rotate event, once its batch is over, the message has been
\* acknowledged by the handler if and only if every instance passed
\* validation, the mapper chain, the unique node lookup and the PATCH; a
\* batch with a failed PATCH is not acknowledged.
C3_AckIffEveryInstanceSucceeded ==
    \A t \in Tokens : BatchSettled(t) =>
        (acks[t].handler > 0 <=> \A i \in DOMAIN jobs[t].inst : jobs[t].inst[i].at = "patched")

\* C6 as stated: a receiveMessage is never issued while the reconciliation a
\* handler started for an earlier event (mapper chain, node lookup, PATCH,
\* acknowledgment) is unfinished.
C6_NoPollBeforeReconciliationDone ==
    [][\A l \in Boots : (lsn[l].pc # "poll" /\ lsn'[l].pc = "poll")
          => \A t \in Tokens : ~BatchInFlight(t)]_vars

\* The polls of Listener l that are in flight or scheduled, and the messages
\* it is processing.
Polling(l) ==
    Cardinality({i \in DOMAIN tickQ : tickQ[i] = TryReadTask(l)})
    + (IF lsn[l].pc = "poll" THEN 1 ELSE 0)
    + (IF inbox[l] # NoMsg THEN 1 ELSE 0)

\* C6, amended: a Listener has at most one poll in flight, and the next
\* receiveMessage is neither scheduled nor issued before the previous poll,
\* the processing of its message and the emit of its event have ended.  The
\* reconciliation the handler started is not waited for.
C6_OnePollOrProcessingAtATime == \A l \in Boots : Polling(l) <= 1

\* A poll is in flight while the batch of the previous message is still
\* looking up or patching a node.
C6_Witness ==
    \E l \in Boots, t \in Tokens :
        /\ lsn[l].pc = "poll"
        /\ jobs[t].chain = "pending"
        /\ \E i \in DOMAIN jobs[t].inst : jobs[t].inst[i].at \in {"find", "patching"}


\* ====================================================== inventory claims

\* The requests of kind op that call p has issued for address a.
Issued(p, op, a) ==
    Cardinality({k \in DOMAIN client[p].work :
                    client[p].work[k].op = op /\ client[p].work[k].ip = a})

\* C5: a sync that found the addresses E and was given the list D has, once
\* all its requests are issued, issued exactly one delete for each address of
\* E \ D, exactly one create carrying the address for each address of D \ E,
\* and nothing for the addresses of E \cap D.
C5_SyncIssuesTheDifference ==
    \A p \in Procs : client[p].pc \in {"wait", "done"} /\ client[p].result # "fail" =>
        LET E == Elems(client[p].existing)
            D == Elems(client[p].desired)
        IN  \A a \in Addrs :
               /\ Issued(p, "delete", a) = (IF a \in E \ D THEN 1 ELSE 0)
               /\ Issued(p, "create", a) = (IF a \in D \ E THEN 1 ELSE 0)


\* C4: when two upsertNodeAsync calls for the same instance have both ended,
\* whatever their interleaving, both have succeeded and the inventory holds
\* exactly one node for the instance.
C4_BothUpsertsSucceedOneNode ==
    (\A p \in Procs : client[p].pc = "done")
        => /\ \A p \in Procs : client[p].result = "ok"
           /\ remote.nodes = 1


\* ================================================ lifecycle claims (2)

\* C11: a stop() made in state Stopped or Stopping returns false and changes
\* neither the state nor the listener nor any pending shutdown; and a stop()
\* returns true exactly when it initiated a shutdown (the state entered
\* Stopping in that call).
C11_StopNoOpAndTrueIffShutdown ==
    [][\A c \in Calls :
          (calls[c].kind = "none" /\ calls'[c].kind = "stop")
            => /\ state \in {"Stopped", "Stopping"}
                    => /\ calls'[c].ret = "false"
                       /\ UNCHANGED <<state, listener, lsn, halt, halted>>
               /\ calls'[c].ret = "true" <=> (state # "Stopping" /\ state' = "Stopping")]_vars


\* The state changes of the lifecycle as documented.
Transitions ==
    {<<"Stopped", "Starting">>, <<"Starting", "Started">>, <<"Starting", "Stopped">>,
     <<"Starting", "Unknown">>, <<"Started", "Stopping">>, <<"Stopping", "Stopped">>,
     <<"Stopping", "Unknown">>}

\* C12: under every interleaving of start(), stop() and the completions of
\* their asynchronous work, every change of the orchestrator state is one of
\* the documented transitions.
C12_OnlyDocumentedTransitions ==
    [][state' # state => <<state, state'>> \in Transitions]_vars

\* C13: once the callback of a start(callback) has been invoked with success,
\* no later event (in particular no 'stopped' event of a later stop) invokes
\* it again.
C13_NoSecondCallAfterSuccess ==
    [][\A c \in Calls :
          (calls[c].kind = "start" /\ calls[c].log # <<>>
             /\ calls[c].log[Len(calls[c].log)] = "ok")
            => calls'[c].log = calls[c].log]_vars

\* C13 witness: the only bootstrap succeeded and called back, a stop() made
\* in state Started has emitted 'stopped', and the 'stopped' subscription of
\* the start callback was consumed without calling it.
C13_Witness ==
    \E c \in Calls, s \in Halts :
        /\ booted = 1
        /\ calls[c].kind = "start" /\ calls[c].ret = "true" /\ calls[c].log = <<"ok">>
        /\ halt[s].chain = "done" /\ halt[s].cb # None
        /\ calls[halt[s].cb].from = "Started"
        /\ c \notin Range(onStopped)
        /\ ~\E i \in DOMAIN tickQ : tickQ[i] = SubStoppedTask(c)


\* ================================================== rotation claims (2)

\* C14: the rotation statuses are fetched once per start: a fetch is issued
\* only by a bootstrap, one for each; handling rotate events issues none.
\* Every batch a handler started took its status from the filled cache, under
\* the key of its event: 'enabled' for rotate-in, 'disabled' for rotate-out.
C14_StatusesFetchedOncePerStart ==
    /\ [][/\ \A b \in Boots : (boot[b].rot # "pending" /\ boot'[b].rot = "pending")
                => /\ boot[b].rot = "none"
                   /\ booted' = booted + 1 /\ b = booted'
          /\ booted' # booted => boot'[booted'].rot = "pending"]_vars
    /\ [](\A t \in Tokens : jobs[t].inst # <<>>
            => /\ rotationStatuses = "filled"
               /\ jobs[t].kind = "register" => jobs[t].status = "enabled"
               /\ jobs[t].kind = "deregister" => jobs[t].status = "disabled")

\* C14 witness: the one fetch of the start has filled the cache, and a
\* rotate-in and a rotate-out event have both been handled from it.
C14_Witness ==
    /\ booted = 1 /\ boot[1].rot = "ok"
    /\ \E t, u \in Tokens :
          /\ jobs[t].kind = "register" /\ jobs[t].status = "enabled"
          /\ jobs[u].kind = "deregister" /\ jobs[u].status = "disabled"


\* The PATCH of the instance was issued.
Patched(x) == x.at \in {"patching", "patched", "patchFailed"}

\* C15: the PATCH of an instance is issued exactly when its node lookup
\* returned one node; a lookup with no match or with several rejects the
\* instance without a PATCH; and whatever became of the other instances of
\* the batch, an instance that waits for its lookup can still end it and be
\* patched.
C15_PatchOnlyForUniqueNode ==
    \A t \in Tokens : \A i \in DOMAIN jobs[t].inst :
        LET x == jobs[t].inst[i] IN
        /\ Patched(x) <=> x.found = "one"
        /\ x.found \in {"zero", "many"} => x.at = "rejected"
        /\ (x.at = "find" /\ Macro) => ENABLED FindDone(t, i, "one")

\* C15 witness: in one batch an instance was rejected for want of a unique
\* node and another has been patched.
C15_Witness ==
    \E t \in Tokens : \E i, j \in DOMAIN jobs[t].inst :
        /\ jobs[t].inst[i].found \in {"zero", "many"} /\ jobs[t].inst[i].at = "rejected"
        /\ jobs[t].inst[j].found = "one" /\ jobs[t].inst[j].at = "patched"

\* Some lookups of the batch of message t failed.
SomeLookupFailed(t) ==
    \E i \in DOMAIN jobs[t].inst : jobs[t].inst[i].found \in {"zero", "many", "error"}

\* C16: a batch in which some instance failed its node lookup is never
\* acknowledged, and every instance of it whose lookup found its node has had
\* its PATCH issued.
C16_PartialBatchNotAcknowledged ==
    \A t \in Tokens : SomeLookupFailed(t) =>
        /\ acks[t].handler = 0
        /\ \A j \in DOMAIN jobs[t].inst : jobs[t].inst[j].found = "one" => Patched(jobs[t].inst[j])

\* C16 witness: a batch is over with one lookup without a match and one
\* instance patched, and the message was not acknowledged.
C16_Witness ==
    \E t \in Tokens : \E i, j \in DOMAIN jobs[t].inst :
        /\ jobs[t].chain = "done"
        /\ jobs[t].inst[i].found = "zero"
        /\ jobs[t].inst[j].at = "patched"
        /\ acks[t].handler = 0


\* ====================================================== listener claims

\* Listener l arrives at the end of a poll iteration (listener.js:103-112).
Continuation(l) == lsn[l].pc \in {"poll", "process"} /\ lsn'[l].pc \in {"tick", "halted"}

\* Listener.stop() is called on Listener l from outside its loop.
StopCalled(l) == lsn[l].listen /\ ~lsn'[l].listen /\ lsn'[l].pc = lsn[l].pc

\* C17: Listener.stop() leaves the poll in flight and the message in
\* processing alone, and they can run to their end; at the next continuation
\* point no poll is scheduled, the Listener becomes Stopped and emits
\* 'stopped'; a Listener emits 'stopped' once, when its loop ends, and is
\* not Stopped before.
C17_StopEndsLoopAtContinuation ==
    /\ [][\A l \in Boots :
            /\ StopCalled(l) => /\ inbox' = inbox
                                /\ lsn'[l].state = "Stopping"
            /\ (Continuation(l) /\ ~lsn[l].listen)
                  => /\ lsn'[l].pc = "halted"
                     /\ lsn'[l].state = "Stopped"
                     /\ lsn'[l].emitted = lsn[l].emitted + 1
                     /\ ~\E i \in DOMAIN tickQ' : tickQ'[i] = TryReadTask(l)]_vars
    /\ [](\A l \in Boots :
            /\ lsn[l].emitted <= 1
            /\ lsn[l].state = "Stopped" => lsn[l].emitted = 1
            /\ lsn[l].emitted = 1 <=> lsn[l].pc = "halted"
            /\ (~lsn[l].listen /\ Macro /\ lsn[l].pc = "poll") => ENABLED PollDone(l, "none")
            /\ (~lsn[l].listen /\ Macro /\ inbox[l] # NoMsg)
                  => ENABLED (\E b \in Batches : CloudDone(l, "ok", b)))

\* C17 witness: stop() was called while a message was in processing; the
\* event of the message has been emitted since, and the Listener has stopped
\* and emitted 'stopped' once.
C17_Witness ==
    \E l \in Boots, t \in Tokens :
        /\ halted = 1
        /\ lsn[l].state = "Stopped" /\ lsn[l].emitted = 1 /\ lsn[l].err = "none"
        /\ acks[t].event # "none"
        /\ Len(delivered) = 1

\* C18: a credentials/authorization failure raised in a poll iteration, by
\* the queue read or by a cloud call of the processing, stops the Listener:
\* the flag is cleared, no poll is scheduled, the Listener is Stopped.
C18_AuthFailureStopsListener ==
    [][\A l \in Boots : (lsn[l].err # "fatal" /\ lsn'[l].err = "fatal")
          => /\ ~lsn'[l].listen
             /\ lsn'[l].pc = "halted"
             /\ lsn'[l].state = "Stopped"
             /\ ~\E i \in DOMAIN tickQ' : tickQ'[i] = TryReadTask(l)]_vars

\* C19: an error raised in a poll iteration that is not a credentials or
\* authorization failure leaves the `listen` flag as it is, the next poll is
\* scheduled if the flag is set, and the Listener deletes no message.
C19_OtherErrorsKeepPolling ==
    [][\A l \in Boots : (lsn[l].err # "error" /\ lsn'[l].err = "error")
          => /\ lsn'[l].listen = lsn[l].listen
             /\ lsn[l].listen => /\ lsn'[l].pc = "tick"
                                 /\ \E i \in DOMAIN tickQ' : tickQ'[i] = TryReadTask(l)
             /\ \A t \in Tokens : acks'[t].listener = acks[t].listener]_vars

\* C20: the Listener never deletes a message for which it emitted a rotate
\* event; such a message is deleted by the handler of the event, if at all.
C20_NoListenerDeleteAfterEvent ==
    \A t \in Tokens : acks[t].event # "none" => acks[t].listener = 0

\* C20 witness: an event was emitted for a message and its handler, not the
\* Listener, has deleted the message.
C20_Witness ==
    \E t \in Tokens : acks[t].event # "none" /\ acks[t].handler = 1 /\ acks[t].listener = 0


\* ===================================================== routing claims

\* The processing of message t by the Listener has ended.
Processed(t) == t \in 1..Len(delivered) /\ \A l \in Boots : inbox[l].token # t

\* C21: a message that is not a register/deregister event (another
\* detail-type, or a load-balancer event with another event name) has been
\* deleted by the Listener when its processing ends, and no rotate event was
\* emitted for it.
C21_UnrecognizedIsAcknowledged ==
    \A t \in Tokens :
        (Processed(t) /\ delivered[t].kind \in {"other", "foreign"})
            => /\ acks[t].listener = 1
               /\ acks[t].event = "none"
               /\ jobs[t] = NoJob

\* C22: the event emitted for a message is instance-rotate-in for a register
\* message and instance-rotate-out for a deregister message, never the
\* other; the handler bound to the event receives the token of the message
\* and as many instances as the message lists; and the event of a message
\* whose lookups are in flight can be emitted.
C22_EventMatchesMessage ==
    /\ \A t \in Tokens :
          /\ acks[t].event # "none"
                => /\ t \in 1..Len(delivered)
                   /\ delivered[t].kind = "register" => acks[t].event = "instance-rotate-in"
                   /\ delivered[t].kind = "deregister" => acks[t].event = "instance-rotate-out"
                   /\ delivered[t].kind \in {"register", "deregister"}
          /\ jobs[t] # NoJob
                => /\ acks[t].event # "none"
                   /\ jobs[t].kind = delivered[t].kind
                   /\ Len(jobs[t].inst) = delivered[t].n
    /\ \A l \in Boots :
          (Macro /\ inbox[l].kind \in {"register", "deregister"})
             => ENABLED (\E b \in Batches : CloudDone(l, "ok", b))

\* C22 witness: a register message and a deregister message, each listing an
\* instance, have had their events emitted and handled.
C22_Witness ==
    \E t, u \in 1..Len(delivered) :
        /\ delivered[t].kind = "register" /\ acks[t].event = "instance-rotate-in"
        /\ jobs[t].kind = "register" /\ Len(jobs[t].inst) = 1
        /\ delivered[u].kind = "deregister" /\ acks[u].event = "instance-rotate-out"
        /\ jobs[u].kind = "deregister" /\ Len(jobs[u].inst) = 1

\* C30: for a load-balancer event without load-balancer name or event name,
\* or one that lists no instance with an identifier, no cloud lookup is made
\* and no rotate event is emitted.
C30_InvalidShapeFailsProcessing ==
    /\ \A l \in Boots : inbox[l] # NoMsg => inbox[l].n > 0
    /\ \A t \in Tokens :
          (t \in 1..Len(delivered) /\ delivered[t].kind \in {"register", "deregister", "invalid"}
             /\ delivered[t].n = 0) => acks[t].event = "none"


\* ================================================ inventory claims (2)

\* The steps of an upsert that wait for a create request.
CreateSteps == {"createService", "createServiceInstance", "createMachine", "createNode"}

\* The create request of call p ends with a conflict in this step.
Conflict(p) ==
    /\ client[p].pc \in CreateSteps
    /\ client'[p].pc # client[p].pc
    /\ client'[p].matches # "none"

\* C23: a create request that ends with a conflict while the lookup by
\* natural key would return exactly one record does not reject the call.
C23_ConflictReturnsExistingRecord ==
    [][\A p \in Procs : (Conflict(p) /\ client'[p].matches = "one")
          => client'[p].result # "fail"]_vars

\* C24: a create request of a service instance, a machine or a node that ends
\* with a conflict while the lookup by natural key would return no record or
\* several rejects the call with a consistency error, and no later step of
\* the call is run.
C24_AmbiguousConflictIsConsistencyError ==
    [][\A p \in Procs :
          (Conflict(p) /\ client[p].pc # "createService"
             /\ client'[p].matches \in {"zero", "many"})
          => /\ client'[p].result = "fail"
             /\ client'[p].error \in ConsistencyErrors
             /\ client'[p].pc = "done"
             /\ client'[p].work = <<>>]_vars

\* The candidate of call p passes the validation the claim describes.
ValidCandidate(p) == client[p].params.tag /\ client[p].params.ports = "list"

\* C25: a call with a candidate that lacks the tag, or whose ports are
\* missing, not an array or empty, is rejected with a validation error and
\* has issued no request; a call with a valid candidate is not.
C25_InvalidCandidateRejectedLocally ==
    \A p \in Procs : client[p].pc # "idle" =>
        IF ValidCandidate(p)
        THEN client[p].error # "validation" /\ client[p].log # <<>>
        ELSE /\ client[p].pc = "done"
             /\ client[p].result = "fail"
             /\ client[p].error = "validation"
             /\ client[p].log = <<>>
             /\ client[p].work = <<>>

\* C25 witness: a candidate with the tag and an empty port list was
\* rejected, and one without the tag but with ports was.
C25_Witness ==
    \E p, q \in Procs :
        /\ client[p].pc = "done" /\ client[p].params = [tag |-> TRUE, ports |-> "empty"]
        /\ client[q].pc = "done" /\ client[q].params = [tag |-> FALSE, ports |-> "list"]

\* The number of requests of step pc that call p has issued.
Sent(p, pc) == Cardinality({k \in DOMAIN client[p].log : client[p].log[k] = RequestOf(pc)})

\* C26: an upsert issues POST nodes/ only when its lookup found no node and
\* PUT nodes/<id> only when it found one, at most one of the two, and exactly
\* one when it succeeds; both carry the same fields.
C26_CreateIffNoExistingNode ==
    /\ RequestOf("createNode").body = RequestOf("updateNode").body
    /\ \A p \in Procs :
          /\ Sent(p, "createNode") + Sent(p, "updateNode") <= 1
          /\ Sent(p, "createNode") = 1 => ~client[p].node
          /\ Sent(p, "updateNode") = 1 => client[p].node
          /\ client[p].result = "ok" => Sent(p, "createNode") + Sent(p, "updateNode") = 1

\* C26 witness: of two upserts that succeeded one created the node and the
\* other updated it.
C26_Witness ==
    \E p, q \in Procs :
        /\ client[p].result = "ok" /\ Sent(p, "createNode") = 1 /\ ~client[p].node
        /\ client[q].result = "ok" /\ Sent(q, "updateNode") = 1 /\ client[q].node

\* The error of the duplicate check of upsertNodeAsync (endecoder.js:126-128).
DuplicateData == "Multiple nodes already exist with that AWS instance ID"

\* C27: a node lookup of an upsert that ends while the inventory holds more
\* than one node for the instance rejects the call as duplicate data; such a
\* call has issued no request but lookups, and no address request.
C27_DuplicateNodesRejectUpsert ==
    /\ [][\A p \in Procs :
            (client[p].pc = "findNode" /\ client'[p].pc # "findNode" /\ remote.nodes > 1)
            => /\ client'[p].pc = "done"
               /\ client'[p].result = "fail"
               /\ client'[p].error = DuplicateData]_vars
    /\ [](\A p \in Procs : client[p].error = DuplicateData
            => /\ \A k \in DOMAIN client[p].log : client[p].log[k].m = "GET"
               /\ client[p].work = <<>>)

\* C27 witness: an upsert was rejected for duplicate nodes.
C27_Witness ==
    \E p \in Procs :
        /\ remote.nodes = 2
        /\ client[p].pc = "done" /\ client[p].error = DuplicateData
        /\ Len(client[p].log) = 1

\* The place of a request in the dependency chain of an upsert.
Rank(req) ==
    CASE req.r = "nodes/search/findByName" -> 0
      [] req.r \in {"services/search/findByKey", "services/"} -> 1
      [] req.r \in {"serviceInstances/search/findByKey", "serviceInstances/",
                    "serviceInstancePorts/"} -> 2
      [] req.r \in {"machines/search/findByName", "machines/<id>", "machines/"} -> 3
      [] req.r \in {"nodes/", "nodes/<id>"} -> 4
      [] OTHER -> 5

Dependencies == <<"service", "serviceInstance", "machine">>

\* C28: the requests of an upsert follow the order service, service instance,
\* machine, node; the records are obtained in that order; and a node request
\* is issued only by a call that has obtained all three, which then exist.
C28_NodeAfterItsDependencies ==
    \A p \in Procs :
        /\ \A i, j \in DOMAIN client[p].log :
              i < j => Rank(client[p].log[i]) <= Rank(client[p].log[j])
        /\ client[p].got = SubSeq(Dependencies, 1, Len(client[p].got))
        /\ Sent(p, "createNode") + Sent(p, "updateNode") > 0
              => /\ client[p].got = Dependencies
                 /\ remote.service /\ remote.serviceInstance /\ remote.machine

\* C28 witness: one upsert went through the whole chain and issued its node
\* request; another failed at a dependency and issued none.
C28_Witness ==
    \E p, q \in Procs :
        /\ client[p].result = "ok" /\ client[p].got = Dependencies
        /\ Sent(p, "createNode") + Sent(p, "updateNode") = 1
        /\ client[q].result = "fail" /\ client[q].got # Dependencies
        /\ client[q].log # <<>>
        /\ Sent(q, "createNode") + Sent(q, "updateNode") = 0


\* ================================================== rotation claims (3)

\* The node that has been through the first n mappers, in order.
Mapped(n) == [j \in 1..n |-> j]

\* C29: mapper k is called with the node that mappers 1..k-1 returned, in
\* that order; the node lookup is made with the output of the last mapper;
\* an instance whose mapper k reported an error keeps the name of that mapper
\* with the error, has been through no later mapper, has no lookup and no
\* PATCH, and nothing happens to it any more.
C29_MapperChainInOrder ==
    /\ [](\A t \in Tokens : \A i \in DOMAIN jobs[t].inst :
            LET x == jobs[t].inst[i] IN
            /\ x.at = "map" => x.k \in Mappers /\ x.node = Mapped(x.k - 1)
            /\ x.at = "stuck" => /\ x.k \in Mappers /\ x.node = Mapped(x.k - 1)
                                 /\ x.found = "-" /\ ~Patched(x)
            /\ (x.at = "find" \/ x.found # "-") => x.node = Mapped(NumMappers))
    /\ [][\A t \in Tokens : \A i \in DOMAIN jobs[t].inst :
            jobs[t].inst[i].at = "stuck" => jobs'[t].inst[i] = jobs[t].inst[i]]_vars

\* C29 witness: in one batch the second mapper reported an error for one
\* instance, after the first had mapped it, and the other instance went
\* through both mappers and was patched.
C29_Witness ==
    \E t \in Tokens : \E i, j \in DOMAIN jobs[t].inst :
        /\ jobs[t].inst[i].at = "stuck" /\ jobs[t].inst[i].k = 2
        /\ jobs[t].inst[i].node = <<1>>
        /\ jobs[t].inst[j].at = "patched" /\ jobs[t].inst[j].node = <<1, 2>>


\* ================================================== listener claims (2)

\* C31: no rotate event is emitted for a registration or deregistration
\* message whose first instance belongs to an autoscaling group.
C31_AutoscaledInstanceRejected ==
    \A t \in Tokens : (t \in 1..Len(delivered) /\ delivered[t].asg) => acks[t].event = "none"



\* ================================================== inventory claims (3)

\* Call p is settled: fulfilled or rejected.
Settled(p) == client[p].result \in {"ok", "fail"}

\* C32: when syncNodeIpAddressesAsync is settled, every delete and create it
\* started has ended and no create is still to be issued.
C32_SettlesAfterEveryRequest ==
    \A p \in Procs : Settled(p) =>
        /\ client[p].pc # "role"
        /\ \A k \in DOMAIN client[p].work : client[p].work[k].done

\* C33: a reconciliation has sent the lookup of the default address role
\* once if it found an address to create and not at all otherwise; and when
\* the service instance has no default role, the reconciliation is rejected
\* after the lookup without having issued a create.
C33_RoleLookedUpOncePerSync ==
    \A p \in Procs :
        /\ Sent(p, "role") = (IF client[p].pc \notin {"idle", "list"} /\ client[p].toAdd # <<>>
                              THEN 1 ELSE 0)
        /\ (~remote.roles /\ client[p].toAdd # <<>> /\ client[p].pc \notin {"idle", "list", "role"})
              => /\ client[p].result = "fail"
                 /\ \A a \in Addrs : Issued(p, "create", a) = 0

\* Two addresses were to be created, a stale one was deleted, and the one
\* role lookup found no default role.
C33_Witness ==
    \E p \in Procs :
        /\ ~remote.roles /\ Len(client[p].toAdd) >= 2
        /\ client[p].pc = "done" /\ client[p].error = NoDefaultRole
        /\ Sent(p, "role") = 1
        /\ \E k \in DOMAIN client[p].work : client[p].work[k].done



\* The DELETE requests call p has sent.
Deleted(p) == {client[p].log[k].r : k \in {i \in DOMAIN client[p].log : client[p].log[i].m = "DELETE"}}

\* C34: an upsert sends no DELETE; a removal sends DELETEs for the node and,
\* only when removeMachine is set, for the machine; a service or service
\* instance of the inventory never disappears, a node disappears only in the
\* node DELETE of a removal and the machine only in the machine DELETE of a
\* removal with removeMachine set.
C34_DeletesOnlyWhereDocumented ==
    /\ [](\A p \in Procs :
            /\ Deleted(p) \subseteq (IF ~client[p].removing THEN {}
                                     ELSE IF client[p].removeMachine
                                     THEN {"nodes/<id>", "machines/<id>"}
                                     ELSE {"nodes/<id>"})
            /\ \A k \in DOMAIN client[p].work :
                  client[p].work[k].op = "delete" => ~client[p].removing)
    /\ [][/\ remote.service => remote'.service
          /\ remote.serviceInstance => remote'.serviceInstance
          /\ remote'.nodes < remote.nodes
                => \E p \in Procs : client[p].pc = "removeNode" /\ client'[p] # client[p]
          /\ remote.machine /\ ~remote'.machine
                => \E p \in Procs : /\ client[p].pc = "removeMachine" /\ client'[p] # client[p]
                                    /\ client[p].removeMachine]_vars

\* One call has upserted the node, the other has then removed the node and
\* its machine; the service and its instance are still there.
C34_Witness ==
    \E p, q \in Procs :
        /\ client[p].result = "ok" /\ ~client[p].removing /\ client[p].got = Dependencies
        /\ client[q].result = "ok" /\ client[q].removing
        /\ Deleted(q) = {"nodes/<id>", "machines/<id>"}
        /\ remote.service /\ remote.serviceInstance /\ ~remote.machine



\* C35: a request whose response carries an error status is fulfilled, with
\* null, exactly when its caller listed that status among the ignored codes:
\* with the status listed the outcome is fulfilled with null and no error,
\* and with an error status not listed the outcome is rejected with it.
C35_OnlyIgnoredCodesSucceed ==
    \A p \in Procs : (client[p].pc = "done" /\ client[p].statusCode # OK) =>
        IF client[p].statusCode \in client[p].ignoredErrorCodes
        THEN client[p].outcome = Fulfilled("null")
        ELSE client[p].outcome = RejectedWith(client[p].statusCode)



\* ================================================ lifecycle claims (4)

\* C36: whenever the state is Stopping, it is Stopped or Unknown at some
\* later time.
C36_StoppingEnds == (state = "Stopping") ~> (state \in {"Stopped", "Unknown"})



\* ================================================== rotation claims (3)

\* C37: the Promise.all over the rotateInstance promises of every batch is
\* settled at some time after the batch was started.
C37_EveryBatchSettles ==
    \A t \in Tokens : (jobs[t].chain = "pending") ~> (jobs[t].chain = "done")



\* ================================================ lifecycle claims (5)

\* C38: while the state is Stopped, no Listener has a poll scheduled or in
\* flight or a message in processing, and none has the rotate handlers
\* attached.
C38_StoppedMeansQuiet ==
    state = "Stopped" => \A l \in Boots : Polling(l) = 0 /\ ~lsn[l].attached



\* ================================================== rotation claims (4)

\* C39: whenever a rotate event is emitted, and its handler runs, the
\* rotation-status cache is filled.
C39_HandlerFindsStatuses ==
    [][\A t \in Tokens :
          (acks[t].event = "none" /\ acks'[t].event # "none") => rotationStatuses = "filled"]_vars



====
